---- MODULE Spec2Model ----
(***************************************************************************)
(* Model of the FreeCAD (fcstd) importer of Online3DViewer:                *)
(*   - FreeCadObject / FreeCadDocument: the CAD document resolver that     *)
(*     reads Document.xml and GuiDocument.xml and decides which objects    *)
(*     are converted (source/engine/import/importerfcstd.js, 19-216);      *)
(*   - ImporterFcstd: the serialized conversion queue that sends one       *)
(*     object at a time to the occt worker (importerfcstd.js, 218-329).    *)
(*                                                                         *)
(* Two specifications are defined.  SpecDoc reads a document element by    *)
(* element, every element drawn from a bounded alphabet.  Spec runs the    *)
(* importer's public methods and the worker's events over a fixed set of   *)
(* archives.                                                               *)
(***************************************************************************)
EXTENDS Integers, Sequences, FiniteSets, TLC

VARIABLES
    \* SpecDoc: FreeCadDocument.Init, element by element.
    dDocument,      \* the FreeCadDocument being loaded
    dStage,         \* the loop of Init that is running
    dObject,        \* the name of the last ObjectData object that was not skipped
    dElement,       \* the XML element the last step read, if it read one
    dRead,          \* how many elements of each kind were read
    dList,          \* what GetObjectListToConvert returned once Init was over
    dDocVisible     \* the names that were visible when LoadDocumentXml returned

docVars == <<dDocument, dStage, dObject, dElement, dRead, dList, dDocVisible>>

VARIABLES
    \* Spec: one ImporterFcstd, its workers and the model it fills.
    worker,         \* this.worker: 0 for null, else the position of the worker in workers
    document,       \* this.document
    workers,        \* every Worker made so far, with the closure of its listeners
    model,          \* this.model: the meshes and the child nodes of the root node
    error,          \* the message recorded by SetError, or null
    onFinishCalls,  \* how often an onFinish callback was invoked
    onFinishError,  \* the error that was recorded when onFinish was invoked last
    importCalls,    \* how often ImportContent was called
    thrown,         \* the exception the last call or event handler raised
    op              \* the last call or event

queueVars ==
    <<worker, document, workers, model, error, onFinishCalls, onFinishError, importCalls, thrown, op>>

VARIABLES
    \* SpecFiles: one ImporterFileList and the GetContent call that runs on it.
    fFiles,         \* this.files
    fRun,           \* the task runner of the last GetContent call, or null
    fResult,        \* what the last IsOnlyUrlSource call returned
    fOp             \* the last call or callback

fileVars == <<fFiles, fRun, fResult, fOp>>

VARIABLES
    \* SpecBim: one ImporterBim and the ImportContent call that runs on it.
    bContent,       \* the file content given to ImportContent
    bStage,         \* where the ImportContent call is
    bNext,          \* the position of the next element of bimJson.elements
    bModel,         \* this.model without its materials
    bMaterials,     \* the materials of this.model, which colorToMaterial fills
    bMeshIdToMesh,  \* this.meshIdToMesh
    bError,         \* the message recorded by SetError, or null
    bFinish,        \* how often onFinish was invoked
    bExported,      \* what ExporterBim.ExportContent made of the imported model, or null
    bFirst          \* the model and materials that were exported, once the file is imported again

bimVars ==
    <<bContent, bStage, bNext, bModel, bMaterials, bMeshIdToMesh, bError, bFinish,
      bExported, bFirst>>

VARIABLES
    \* SpecViewer: one EmbeddedViewer, its parent element and its model loader.
    eParameters,    \* this.parameters, as far as LoadModelFromInputFiles reads them
    eModel,         \* this.model
    eDisplay,       \* this.canvas.style.display
    eChildren,      \* the children of this.parentElement, in document order
    eMainObject,    \* the main object of this.viewer, or null
    eLoad,          \* the load that is running: the closure of its callbacks, or null
    eLoads,         \* how many loads were started
    eLoaded,        \* what GetModel returned inside each call of parameters.onModelLoaded
    eOp             \* the last call or callback

viewerVars ==
    <<eParameters, eModel, eDisplay, eChildren, eMainObject, eLoad, eLoads, eLoaded, eOp>>

VARIABLES
    \* SpecHighlight: the meshes of the main model of one Viewer.
    hMeshes,        \* the meshes that mainModel.EnumerateMeshes enumerates
    hCall           \* the arguments of the last SetMeshesHighlight call, or null

highlightVars == <<hMeshes, hCall>>

vars == <<docVars, queueVars, fileVars, bimVars, viewerVars, highlightVars>>

\* What the steps of one specification leave alone.
otherThanDoc == <<queueVars, fileVars, bimVars, viewerVars, highlightVars>>
otherThanQueue == <<docVars, fileVars, bimVars, viewerVars, highlightVars>>
otherThanFiles == <<docVars, queueVars, bimVars, viewerVars, highlightVars>>
otherThanBim == <<docVars, queueVars, fileVars, viewerVars, highlightVars>>
otherThanViewer == <<docVars, queueVars, fileVars, bimVars, highlightVars>>
otherThanHighlight == <<docVars, queueVars, fileVars, bimVars, viewerVars>>

\* JavaScript null where the value is otherwise a string.
Null == "$null"
\* JavaScript null where the value is otherwise a record.
NullObject == [null |-> TRUE]
\* A model without meshes whose root node has no child.
EmptyModel == [meshes |-> <<>>, root |-> <<>>]

\* The canvas element the constructor of EmbeddedViewer makes.
Canvas == [tag |-> "canvas", id |-> 0, innerHTML |-> ""]

\* EmbeddedViewer.constructor (lines 40-86): the canvas is appended to the
\* parent element, the model is null and nothing has been loaded.
EmbeddedViewer(parameters) ==
    /\ eParameters = parameters
    /\ eModel = NullObject
    /\ eDisplay = ""
    /\ eChildren = <<Canvas>>
    /\ eMainObject = NullObject
    /\ eLoad = NullObject
    /\ eLoads = 0
    /\ eLoaded = <<>>
    /\ eOp = "constructor"

\* A Viewer whose main model has no mesh.
NoMainModel ==
    /\ hMeshes = <<>>
    /\ hCall = NullObject

(***************************************************************************)
(* Bounds of the model.                                                    *)
(***************************************************************************)
\* Object elements read from the Objects sections of Document.xml.
MaxObjects == 2
\* Object elements read from the ObjectData sections of Document.xml.
MaxData == 2
\* Property elements below one Object element of ObjectData.
MaxProps == 2
\* Link elements below one Object element of ObjectData.
MaxLinks == 1
\* ViewProvider elements read from GuiDocument.xml.
MaxViews == 1
\* Raw meshes carried by one worker response.
MaxMeshes == 2
\* ImportContent calls on one importer.
MaxImports == 1
\* Files in one ImporterFileList.
MaxFiles == 2
\* Tasks that the task runner has running at a time.
MaxPool == 2
\* Triangles of one BIM mesh.
MaxTriangles == 2
\* Elements of one BIM document.
MaxElements == 2
\* How many loads an EmbeddedViewer starts.
MaxLoads == 2
\* How many meshes the main model of a Viewer has.
MaxViewMeshes == 2

(***************************************************************************)
(* Strings whose characters matter are sequences of one-character strings. *)
(***************************************************************************)
StartsWith(str, prefix) ==
    /\ Len(prefix) <= Len(str)
    /\ SubSeq(str, 1, Len(prefix)) = prefix

\* String.prototype.indexOf: the 0-based position of the first occurrence, or -1.
IndexOf(str, sub) ==
    LET hits == {i \in 0..(Len(str) - Len(sub)) : SubSeq(str, i + 1, i + Len(sub)) = sub}
    IN  IF hits = {} THEN -1 ELSE CHOOSE i \in hits : \A j \in hits : i <= j

StrPart == <<"P","a","r","t",":",":">>
StrPartDesign == <<"P","a","r","t","D","e","s","i","g","n",":",":">>
StrPart2D == <<"P","a","r","t","2","D">>

IsSupportedType_NoDenyList(type) ==
    StartsWith(type, StrPart) \/ StartsWith(type, StrPartDesign)

IsSupportedType(type) ==
    IF ~StartsWith(type, StrPart) /\ ~StartsWith(type, StrPartDesign) THEN FALSE
    ELSE IF IndexOf(type, StrPart2D) /= -1 THEN FALSE
    ELSE TRUE

(***************************************************************************)
(* The archive.  unzipSync gives a mapping from file name to bytes; the    *)
(* two XML files are kept apart from the blobs because they are parsed.    *)
(***************************************************************************)
ArchiveBlobs ==
    ("PartShape.brp" :> "bytes-1") @@ ("PartShape1.brep" :> "bytes-2") @@
    ("PartShape2.brp" :> "bytes-3") @@ ("thumbnail.png" :> "bytes-4")

\* GetFileExtension of the file names that occur in the model.
GetFileExtension(fileName) ==
    CASE fileName = "PartShape.brp" -> "brp"
      [] fileName = "PartShape1.brep" -> "brep"
      [] fileName = "PartShape2.brp" -> "brp"
      [] fileName = "Missing.brp" -> "brp"
      [] fileName = "thumbnail.png" -> "png"
      [] fileName \in {"a.obj", "A.OBJ", "x/A.OBJ"} -> "obj"
      [] fileName = "b.mtl" -> "mtl"
      [] OTHER -> ""

HasFile(files, fileName) == fileName \in DOMAIN files

(***************************************************************************)
(* XML elements, as the DOM parser gives them.  A child of a Property is   *)
(* [tag, attr, value]: its tag name and the one attribute it carries.      *)
(* getAttribute of an attribute that is not there gives null.              *)
(***************************************************************************)
GetFirstChildValue(element, childTagName, childAttribute) ==
    LET childObjects == SelectSeq(element.children, LAMBDA c : c.tag = childTagName)
    IN  IF Len(childObjects) = 0 THEN Null
        ELSE IF childObjects[1].attr = childAttribute THEN childObjects[1].value
        ELSE Null

FreeCadObject(name, type) ==
    [name |-> name, type |-> type, shapeName |-> Null, isVisible |-> FALSE,
     fileName |-> Null, fileContent |-> Null, inLinkCount |-> 0]

IsConvertible_IgnoreLinks(object) ==
    IF object.fileName = Null \/ object.fileContent = Null THEN FALSE
    ELSE IF ~object.isVisible THEN FALSE
    ELSE TRUE

IsConvertible(object) ==
    IF object.fileName = Null \/ object.fileContent = Null THEN FALSE
    ELSE IF ~object.isVisible THEN FALSE
    ELSE IF object.inLinkCount > 0 THEN FALSE
    ELSE TRUE

\* new FreeCadDocument (), with this.files as unzipSync gives them.
FreeCadDocument(files) ==
    [files |-> files, objectNames |-> <<>>, objectData |-> <<>>]

\* Map.prototype.has / get / set on objectData.
HasObject(doc, name) == name \in DOMAIN doc.objectData

SetObject(doc, name, object) ==
    [doc EXCEPT !.objectData =
        [n \in (DOMAIN doc.objectData) \cup {name} |->
            IF n = name THEN object ELSE doc.objectData[n]]]

RECURSIVE GetObjectListFrom_Reversed(_, _)
GetObjectListFrom_Reversed(doc, names) ==
    IF names = <<>> THEN <<>>
    ELSE LET object == doc.objectData[Head(names)]
             rest == GetObjectListFrom_Reversed(doc, Tail(names))
         IN  IF ~IsConvertible(object) THEN rest ELSE rest \o <<object>>

\* Lines 70-78: the loop of GetObjectListToConvert over the names that are left.
RECURSIVE GetObjectListFrom(_, _)
GetObjectListFrom(doc, names) ==
    IF names = <<>> THEN <<>>
    ELSE LET object == doc.objectData[Head(names)]
             rest == GetObjectListFrom(doc, Tail(names))
         IN  IF ~IsConvertible(object) THEN rest ELSE <<object>> \o rest

GetObjectListToConvert(doc) ==
    GetObjectListFrom(doc, doc.objectNames)

(***************************************************************************)
(* FreeCadDocument.LoadDocumentXml, one loop body per operator.            *)
(***************************************************************************)
\* Lines 109-116: one Object element of an Objects section.
DeclareObject(doc, objectElement) ==
    LET name == objectElement.name
        type == objectElement.type
    IN  IF ~IsSupportedType(type) THEN doc
        ELSE [SetObject(doc, name, FreeCadObject(name, type))
                EXCEPT !.objectNames = Append(doc.objectNames, name)]

RECURSIVE DeclareObjects(_, _)
DeclareObjects(doc, objectElements) ==
    IF objectElements = <<>> THEN doc
    ELSE DeclareObjects(DeclareObject(doc, Head(objectElements)), Tail(objectElements))

\* Lines 132-152: one Property element of an object of ObjectData.
ReadProperty(files, object, propertyElement) ==
    LET propertyName == propertyElement.name
    IN  IF propertyName = "Label" THEN
            [object EXCEPT !.shapeName = GetFirstChildValue(propertyElement, "String", "value")]
        ELSE IF propertyName = "Visibility" THEN
            [object EXCEPT !.isVisible = (GetFirstChildValue(propertyElement, "Bool", "value") = "true")]
        ELSE IF propertyName = "Visible" THEN
            [object EXCEPT !.isVisible = (GetFirstChildValue(propertyElement, "Bool", "value") = "true")]
        ELSE IF propertyName = "Shape" THEN
            LET fileName == GetFirstChildValue(propertyElement, "Part", "file")
            IN  IF ~HasFile(files, fileName) THEN object
                ELSE LET extension == GetFileExtension(fileName)
                     IN  IF extension /= "brp" /\ extension /= "brep" THEN object
                         ELSE [object EXCEPT !.fileName = fileName,
                                             !.fileContent = files[fileName]]
        ELSE object

RECURSIVE ReadProperties(_, _, _)
ReadProperties(files, object, propertyElements) ==
    IF propertyElements = <<>> THEN object
    ELSE ReadProperties(files, ReadProperty(files, object, Head(propertyElements)),
                        Tail(propertyElements))

ReadLink_SetOne(doc, linkedName) ==
    IF HasObject(doc, linkedName) THEN
        [doc EXCEPT !.objectData[linkedName].inLinkCount = 1]
    ELSE doc

\* Lines 157-161: one Link element below an object of ObjectData.
ReadLink(doc, linkedName) ==
    IF HasObject(doc, linkedName) THEN
        [doc EXCEPT !.objectData[linkedName].inLinkCount = @ + 1]
    ELSE doc

RECURSIVE ReadLinks(_, _)
ReadLinks(doc, linkedNames) ==
    IF linkedNames = <<>> THEN doc
    ELSE ReadLinks(ReadLink(doc, Head(linkedNames)), Tail(linkedNames))

\* Lines 124-162: one Object element of an ObjectData section.
LoadObjectData(doc, objectElement) ==
    LET name == objectElement.name
    IN  IF ~HasObject(doc, name) THEN doc
        ELSE LET object == ReadProperties(doc.files, doc.objectData[name],
                                          objectElement.props)
             IN  ReadLinks(SetObject(doc, name, object), objectElement.links)

RECURSIVE LoadObjectDatas(_, _)
LoadObjectDatas(doc, objectElements) ==
    IF objectElements = <<>> THEN doc
    ELSE LoadObjectDatas(LoadObjectData(doc, Head(objectElements)), Tail(objectElements))

\* GetXMLContent: parsed is what the DOM parser makes of the file's bytes.
GetXMLContent(files, xmlFileName, parsed) ==
    IF ~HasFile(files, xmlFileName) THEN NullObject ELSE parsed

\* Gives [ok, doc]: the return value and the doc afterwards.
LoadDocumentXml(doc, parsed) ==
    LET documentXml == GetXMLContent(doc.files, "Document.xml", parsed)
    IN  IF documentXml = NullObject THEN [ok |-> FALSE, document |-> doc]
        ELSE [ok |-> TRUE,
              document |-> LoadObjectDatas(DeclareObjects(doc, documentXml.objects),
                                           documentXml.data)]

(***************************************************************************)
(* FreeCadDocument.LoadGuiDocumentXml.                                     *)
(***************************************************************************)
ReadGuiProperty_AlsoVisible(object, propertyElement) ==
    IF propertyElement.name \in {"Visibility", "Visible"} THEN
        [object EXCEPT !.isVisible = (GetFirstChildValue(propertyElement, "Bool", "value") = "true")]
    ELSE object

\* Lines 186-190: one Property element of a ViewProvider.
ReadGuiProperty(object, propertyElement) ==
    IF propertyElement.name = "Visibility" THEN
        [object EXCEPT !.isVisible = (GetFirstChildValue(propertyElement, "Bool", "value") = "true")]
    ELSE object

RECURSIVE ReadGuiProperties(_, _)
ReadGuiProperties(object, propertyElements) ==
    IF propertyElements = <<>> THEN object
    ELSE ReadGuiProperties(ReadGuiProperty(object, Head(propertyElements)),
                           Tail(propertyElements))

\* Lines 178-191: one ViewProvider element.
LoadViewProvider(doc, viewProviderElement) ==
    LET name == viewProviderElement.name
    IN  IF ~HasObject(doc, name) THEN doc
        ELSE SetObject(doc, name,
                ReadGuiProperties(doc.objectData[name], viewProviderElement.props))

RECURSIVE LoadViewProviders(_, _)
LoadViewProviders(doc, viewProviderElements) ==
    IF viewProviderElements = <<>> THEN doc
    ELSE LoadViewProviders(LoadViewProvider(doc, Head(viewProviderElements)),
                           Tail(viewProviderElements))

LoadGuiDocumentXml(doc, parsed) ==
    LET documentXml == GetXMLContent(doc.files, "GuiDocument.xml", parsed)
    IN  IF documentXml = NullObject THEN [ok |-> FALSE, document |-> doc]
        ELSE [ok |-> TRUE, document |-> LoadViewProviders(doc, documentXml.views)]

DocumentInitResult == [Success |-> 0, NoDocumentXml |-> 1]

\* FreeCadDocument.Init; archive is the unzipped file content with what the
\* DOM parser makes of its two XML files.
DocumentInit(doc, archive) ==
    LET loaded == LoadDocumentXml([doc EXCEPT !.files = archive.files],
                                  archive.documentXml)
    IN  IF ~loaded.ok THEN
            [result |-> DocumentInitResult.NoDocumentXml, document |-> loaded.document]
        ELSE [result |-> DocumentInitResult.Success,
              document |-> LoadGuiDocumentXml(loaded.document, archive.guiDocumentXml).document]

(***************************************************************************)
(* SpecDoc: the documents FreeCadDocument.Init is run on.                  *)
(***************************************************************************)
ObjectNameSet == {"A", "B"}

TypeBox == <<"P","a","r","t",":",":","B","o","x">>
TypePad == <<"P","a","r","t","D","e","s","i","g","n",":",":","P","a","d">>
TypePart2D == <<"P","a","r","t",":",":","P","a","r","t","2","D","O","b","j">>
TypeDesign2D == <<"P","a","r","t","D","e","s","i","g","n",":",":","S","u","b","P","a","r","t","2","D">>
TypeAppPart == <<"A","p","p",":",":","P","a","r","t",":",":","X">>
TypeSketch == <<"S","k","e","t","c","h","e","r",":",":","S","k">>
TypeShort == <<"P","a","r","t">>

ObjectElement(name, type) == [name |-> name, type |-> type]

\* The Object elements of the Objects sections: every name with one type that
\* is retained and with types that are not.
ObjectElements ==
    { ObjectElement("A", TypeBox), ObjectElement("B", TypePad),
      ObjectElement("A", TypeDesign2D), ObjectElement("B", TypePart2D),
      ObjectElement("A", TypeSketch), ObjectElement("B", TypeAppPart),
      ObjectElement("B", TypeShort) }

Child(tag, attr, value) == [tag |-> tag, attr |-> attr, value |-> value]
Property(name, children) == [name |-> name, children |-> children]

PropertyElements ==
    { Property("Visibility", <<Child("Bool", "value", "true")>>),
      Property("Visibility", <<Child("Bool", "value", "false")>>),
      Property("Visible", <<Child("Bool", "value", "true")>>),
      Property("Shape", <<Child("Part", "file", "PartShape.brp")>>),
      Property("Shape", <<Child("Part", "file", "PartShape1.brep")>>),
      Property("Shape", <<Child("Part", "file", "thumbnail.png")>>),
      Property("Shape", <<Child("Part", "file", "Missing.brp")>>),
      Property("Placement", <<>>) }

GuiPropertyElements ==
    { Property("Visibility", <<Child("Bool", "value", "true")>>),
      Property("Visibility", <<Child("Bool", "value", "false")>>),
      Property("Visible", <<Child("Bool", "value", "true")>>),
      Property("DisplayMode", <<>>) }

SeqsUpTo(S, n) == UNION {[1..k -> S] : k \in 0..n}

ViewProviderElements ==
    [name : ObjectNameSet, props : SeqsUpTo(GuiPropertyElements, 1)]

XmlFiles == ("Document.xml" :> "xml-1") @@ ("GuiDocument.xml" :> "xml-2")

ArchiveFileSets ==
    { ArchiveBlobs @@ [n \in names |-> XmlFiles[n]] : names \in SUBSET (DOMAIN XmlFiles) }

NoElement == [kind |-> "none"]

\* The number of elements read so far in each of the loops that are running.
NoneRead == [objects |-> 0, data |-> 0, props |-> 0, links |-> 0, views |-> 0]

\* The document the DOM parser gives; its elements are read one by one.
ParsedXml == [kind |-> "Document"]

InitDoc ==
    /\ dDocument \in {FreeCadDocument(files) : files \in ArchiveFileSets}
    /\ dStage = "Init"
    /\ dObject = Null
    /\ dElement = NoElement
    /\ dRead = NoneRead
    /\ dList = <<>>
    /\ dDocVisible = {}
    /\ fFiles = <<>>
    /\ fRun = NullObject
    /\ fResult = FALSE
    /\ fOp = "constructor"
    /\ bContent = NullObject
    /\ bStage = "constructor"
    /\ bNext = 0
    /\ bModel = NullObject
    /\ bMaterials = <<>>
    /\ bMeshIdToMesh = <<>>
    /\ bError = Null
    /\ bFinish = 0
    /\ bExported = NullObject
    /\ bFirst = NullObject
    /\ EmbeddedViewer([onModelLoaded |-> FALSE])
    /\ NoMainModel
    /\ worker = 0
    /\ document = NullObject
    /\ workers = <<>>
    /\ model = EmptyModel
    /\ error = Null
    /\ onFinishCalls = 0
    /\ onFinishError = Null
    /\ importCalls = 0
    /\ thrown = "none"
    /\ op = "constructor"

\* Lines 100-103: Init calls LoadDocumentXml, which looks for Document.xml.
OpenDocumentXml ==
    /\ dStage = "Init"
    /\ dStage' = IF GetXMLContent(dDocument.files, "Document.xml", ParsedXml) = NullObject
                 THEN "NoDocumentXml" ELSE "Objects"
    /\ UNCHANGED <<dDocument, dObject, dElement, dRead, dList, dDocVisible>>
    /\ UNCHANGED otherThanDoc

\* Lines 108-117: the next Object element of an Objects section.
ReadObjectElement ==
    /\ dStage = "Objects"
    /\ dRead.objects < MaxObjects
    /\ \E objectElement \in ObjectElements :
        /\ dDocument' = DeclareObject(dDocument, objectElement)
        /\ dElement' = [kind |-> "Object", element |-> objectElement]
    /\ dRead' = [dRead EXCEPT !.objects = @ + 1]
    /\ UNCHANGED <<dStage, dObject, dList, dDocVisible>>
    /\ UNCHANGED otherThanDoc

\* Line 120: the Objects sections are exhausted.
EndObjects ==
    /\ dStage = "Objects"
    /\ dStage' = "ObjectData"
    /\ dElement' = NoElement
    /\ dRead' = NoneRead
    /\ UNCHANGED <<dDocument, dObject, dList, dDocVisible>>
    /\ UNCHANGED otherThanDoc

\* Lines 123-130: the next Object element of an ObjectData section; it is
\* skipped with all it contains when its name is not in objectData.
BeginObjectData ==
    /\ dStage = "ObjectData"
    /\ dRead.data < MaxData
    /\ \E name \in ObjectNameSet :
        /\ dElement' = [kind |-> "ObjectData", name |-> name]
        /\ IF ~HasObject(dDocument, name)
           THEN /\ dStage' = "ObjectData"
                /\ dObject' = dObject
           ELSE /\ dStage' = "Properties"
                /\ dObject' = name
    /\ dRead' = [dRead EXCEPT !.data = @ + 1]
    /\ UNCHANGED <<dDocument, dList, dDocVisible>>
    /\ UNCHANGED otherThanDoc

\* Lines 131-153: the next Property element of the object.
ReadPropertyElement ==
    /\ dStage = "Properties"
    /\ dRead.props < MaxProps
    /\ \E propertyElement \in PropertyElements :
        /\ dDocument' = SetObject(dDocument, dObject,
                ReadProperty(dDocument.files, dDocument.objectData[dObject], propertyElement))
        /\ dElement' = [kind |-> "Property", element |-> propertyElement]
    /\ dRead' = [dRead EXCEPT !.props = @ + 1]
    /\ UNCHANGED <<dStage, dObject, dList, dDocVisible>>
    /\ UNCHANGED otherThanDoc

\* Line 155: the properties of the object are exhausted.
EndProperties ==
    /\ dStage = "Properties"
    /\ dStage' = "Links"
    /\ dElement' = NoElement
    /\ UNCHANGED <<dDocument, dObject, dRead, dList, dDocVisible>>
    /\ UNCHANGED otherThanDoc

\* Lines 156-162: the next Link element of the object.
ReadLinkElement ==
    /\ dStage = "Links"
    /\ dRead.links < MaxLinks
    /\ \E linkedName \in ObjectNameSet :
        /\ dDocument' = ReadLink(dDocument, linkedName)
        /\ dElement' = [kind |-> "Link", value |-> linkedName]
    /\ dRead' = [dRead EXCEPT !.links = @ + 1]
    /\ UNCHANGED <<dStage, dObject, dList, dDocVisible>>
    /\ UNCHANGED otherThanDoc

\* Line 163: the links of the object are exhausted.
EndLinks ==
    /\ dStage = "Links"
    /\ dStage' = "ObjectData"
    /\ dElement' = NoElement
    /\ dRead' = [dRead EXCEPT !.props = 0, !.links = 0]
    /\ UNCHANGED <<dDocument, dObject, dList, dDocVisible>>
    /\ UNCHANGED otherThanDoc

\* Lines 166, 64, 171-176: LoadDocumentXml returns and LoadGuiDocumentXml
\* looks for GuiDocument.xml; without it Init returns and the caller asks for
\* the object list.
EndObjectData ==
    /\ dStage = "ObjectData"
    /\ IF GetXMLContent(dDocument.files, "GuiDocument.xml", ParsedXml) = NullObject
       THEN /\ dStage' = "Done"
            /\ dList' = GetObjectListToConvert(dDocument)
       ELSE /\ dStage' = "ViewProviders"
            /\ dList' = dList
    /\ dDocVisible' = {n \in DOMAIN dDocument.objectData : dDocument.objectData[n].isVisible}
    /\ dElement' = NoElement
    /\ dRead' = NoneRead
    /\ UNCHANGED <<dDocument, dObject>>
    /\ UNCHANGED otherThanDoc

\* Lines 177-192: the next ViewProvider element of GuiDocument.xml.
ReadViewProviderElement ==
    /\ dStage = "ViewProviders"
    /\ dRead.views < MaxViews
    /\ \E viewProviderElement \in ViewProviderElements :
        /\ dDocument' = LoadViewProvider(dDocument, viewProviderElement)
        /\ dElement' = [kind |-> "ViewProvider", element |-> viewProviderElement]
    /\ dRead' = [dRead EXCEPT !.views = @ + 1]
    /\ UNCHANGED <<dStage, dObject, dList, dDocVisible>>
    /\ UNCHANGED otherThanDoc

\* Lines 194, 65: Init returns Success; the caller asks for the object list.
EndViewProviders ==
    /\ dStage = "ViewProviders"
    /\ dStage' = "Done"
    /\ dList' = GetObjectListToConvert(dDocument)
    /\ dElement' = NoElement
    /\ dRead' = NoneRead
    /\ UNCHANGED <<dDocument, dObject, dDocVisible>>
    /\ UNCHANGED otherThanDoc

NextDoc ==
    \/ OpenDocumentXml
    \/ ReadObjectElement
    \/ EndObjects
    \/ BeginObjectData
    \/ ReadPropertyElement
    \/ EndProperties
    \/ ReadLinkElement
    \/ EndLinks
    \/ EndObjectData
    \/ ReadViewProviderElement
    \/ EndViewProviders

(***************************************************************************)
(* The Unified Model, as far as the importer writes it.                    *)
(***************************************************************************)
\* Model.AddMesh: appends the mesh; the index it returns is MeshCount before.
AddMesh(model_, mesh) == [model_ EXCEPT !.meshes = Append(@, mesh)]

\* Node.AddChildNode on the root node.
AddChildNode(model_, node) == [model_ EXCEPT !.root = Append(@, node)]

PadStart_None(str, targetLength, padString) == str

\* String.prototype.padStart with a pad string of one character.
RECURSIVE PadStart(_, _, _)
PadStart(str, targetLength, padString) ==
    IF Len(str) >= targetLength THEN str
    ELSE PadStart(padString \o str, targetLength, padString)

\* Lines 315-324: the loop over resultContent.meshes; meshCount of them remain,
\* the next one is the objectMeshIndex-th.
RECURSIVE ConvertMeshes(_, _, _, _, _)
ConvertMeshes(model_, objectNode, object, objectMeshIndex, meshCount) ==
    IF meshCount = 0 THEN [model |-> model_, objectNode |-> objectNode]
    ELSE LET indexString == PadStart(ToString(objectMeshIndex), 3, "0")
             mesh == [name |-> IF object.shapeName /= Null
                               THEN object.shapeName \o " " \o indexString
                               ELSE Null]
             meshIndex == Len(model_.meshes)
         IN  ConvertMeshes(AddMesh(model_, mesh),
                           [objectNode EXCEPT !.meshIndices = Append(@, meshIndex)],
                           object, objectMeshIndex + 1, meshCount - 1)

OnFileConverted_NoCheck(model_, object, resultContent) ==
    LET objectNode == [type |-> "GroupNode",
                       name |-> IF object.shapeName /= Null THEN object.shapeName ELSE Null,
                       meshIndices |-> <<>>]
        converted == ConvertMeshes(model_, objectNode, object, 1, resultContent.meshes)
    IN  AddChildNode(converted.model, converted.objectNode)

\* ImporterFcstd.OnFileConverted; resultContent.meshes is the number of raw meshes.
OnFileConverted(model_, object, resultContent) ==
    IF ~resultContent.success \/ resultContent.meshes = 0 THEN model_
    ELSE LET objectNode == [type |-> "GroupNode",
                            name |-> IF object.shapeName /= Null THEN object.shapeName ELSE Null,
                            meshIndices |-> <<>>]
             converted == ConvertMeshes(model_, objectNode, object, 1, resultContent.meshes)
         IN  AddChildNode(converted.model, converted.objectNode)

(***************************************************************************)
(* ImporterFcstd.                                                          *)
(***************************************************************************)

\* worker.postMessage on this.worker; on null it raises a TypeError.
PostMessage(workers_, worker_) ==
    IF worker_ = 0 THEN workers_
    ELSE [workers_ EXCEPT ![worker_].inflight = @ + 1, ![worker_].posted = @ + 1]

ClearContent_NoTerminate ==
    /\ worker' = 0
    /\ document' = NullObject
    /\ op' = "ClearContent"
    /\ thrown' = "none"
    /\ UNCHANGED <<workers, model, error, onFinishCalls, onFinishError, importCalls>>
    /\ UNCHANGED otherThanQueue

ClearContent_NoNullCheck ==
    /\ IF worker /= 0
       THEN /\ workers' = [workers EXCEPT ![worker].terminated = TRUE]
            /\ worker' = 0
            /\ document' = NullObject
            /\ thrown' = "none"
       ELSE /\ thrown' = "TypeError"
            /\ UNCHANGED <<workers, worker, document>>
    /\ op' = "ClearContent"
    /\ UNCHANGED <<model, error, onFinishCalls, onFinishError, importCalls>>
    /\ UNCHANGED otherThanQueue

\* Lines 237-244.
ClearContent ==
    /\ IF worker /= 0
       THEN /\ workers' = [workers EXCEPT ![worker].terminated = TRUE]
            /\ worker' = 0
       ELSE UNCHANGED <<workers, worker>>
    /\ document' = NullObject
    /\ op' = "ClearContent"
    /\ thrown' = "none"
    /\ UNCHANGED <<model, error, onFinishCalls, onFinishError, importCalls>>
    /\ UNCHANGED otherThanQueue

\* Lines 246-250.  The importer is reset when no conversion of it is running:
\* a new import starts after the teardown of the one before.
ResetContent ==
    /\ worker = 0
    /\ worker' = 0
    /\ document' = FreeCadDocument(<<>>)
    /\ op' = "ResetContent"
    /\ thrown' = "none"
    /\ UNCHANGED <<workers, model, error, onFinishCalls, onFinishError, importCalls>>
    /\ UNCHANGED otherThanQueue

\* Lines 246-250 as they are written: ResetContent called at any time, also
\* while the worker of the import before is alive.
ResetContentCall ==
    /\ worker' = 0
    /\ document' = FreeCadDocument(<<>>)
    /\ op' = "ResetContent"
    /\ thrown' = "none"
    /\ UNCHANGED <<workers, model, error, onFinishCalls, onFinishError, importCalls>>
    /\ UNCHANGED otherThanQueue

NewWorker(objects) ==
    [terminated |-> FALSE, objects |-> objects, convertedObjectCount |-> 0,
     inflight |-> 0, posted |-> 0, finished |-> 0, outcomes |-> <<>>,
     meshCounts |-> <<>>,
     nodesBefore |-> Len(model.root), meshesBefore |-> Len(model.meshes)]

ConvertObjects_PostAll(objects) ==
    /\ worker' = Len(workers) + 1
    /\ workers' = Append(workers, [NewWorker(objects) EXCEPT !.inflight = Len(objects),
                                                             !.posted = Len(objects)])
    /\ thrown' = IF objects = <<>> THEN "TypeError" ELSE "none"
    /\ UNCHANGED <<model, onFinishCalls, onFinishError>>

\* Lines 264-300: makes the worker, adds the listeners and posts the first
\* object; objects[0].fileContent raises a TypeError when objects is empty.
ConvertObjects(objects) ==
    /\ worker' = Len(workers) + 1
    /\ IF objects = <<>>
       THEN /\ workers' = Append(workers, NewWorker(objects))
            /\ thrown' = "TypeError"
       ELSE /\ workers' = PostMessage(Append(workers, NewWorker(objects)), Len(workers) + 1)
            /\ thrown' = "none"
    /\ UNCHANGED <<model, onFinishCalls, onFinishError>>

ImportContent_FinishFirst(fileContent) ==
    /\ op = "ResetContent"
    /\ importCalls < MaxImports
    /\ UNCHANGED otherThanQueue
    /\ importCalls' = importCalls + 1
    /\ op' = "ImportContent"
    /\ LET init == DocumentInit(document, fileContent)
       IN  /\ document' = init.document
           /\ IF init.result = DocumentInitResult.NoDocumentXml
              THEN /\ onFinishCalls' = onFinishCalls + 1
                   /\ onFinishError' = error
                   /\ error' = "No Document.xml found."
                   /\ thrown' = "none"
                   /\ UNCHANGED <<worker, workers, model>>
              ELSE /\ ConvertObjects(GetObjectListToConvert(init.document))
                   /\ error' = error

\* Lines 252-262.  ImportContent is called once after each ResetContent;
\* SetError (line 256) runs before onFinish (line 257).
ImportContent(fileContent) ==
    /\ op = "ResetContent"
    /\ importCalls < MaxImports
    /\ UNCHANGED otherThanQueue
    /\ importCalls' = importCalls + 1
    /\ op' = "ImportContent"
    /\ LET init == DocumentInit(document, fileContent)
       IN  /\ document' = init.document
           /\ IF init.result = DocumentInitResult.NoDocumentXml
              THEN /\ error' = "No Document.xml found."
                   /\ onFinishCalls' = onFinishCalls + 1
                   /\ onFinishError' = "No Document.xml found."
                   /\ thrown' = "none"
                   /\ UNCHANGED <<worker, workers, model>>
              ELSE /\ ConvertObjects(GetObjectListToConvert(init.document))
                   /\ error' = error

OnFileConvertedEvent_StopOnFailure(w, resultContent, outcome) ==
    LET closure == workers[w]
        failed == resultContent = NullObject \/ ~resultContent.success
        count == closure.convertedObjectCount + 1
        answered == [workers EXCEPT ![w].inflight = @ - 1,
                                    ![w].convertedObjectCount = count,
                                    ![w].outcomes = Append(@, outcome),
                                    ![w].meshCounts =
                                        Append(@, IF resultContent /= NullObject
                                                  THEN resultContent.meshes ELSE 0)]
    IN  /\ model' = IF resultContent /= NullObject
                    THEN OnFileConverted(model, closure.objects[count], resultContent)
                    ELSE model
        /\ IF count = Len(closure.objects) \/ failed
           THEN /\ workers' = [answered EXCEPT ![w].finished = @ + 1]
                /\ onFinishCalls' = onFinishCalls + 1
                /\ onFinishError' = error
                /\ thrown' = "none"
           ELSE /\ workers' = PostMessage(answered, worker)
                /\ onFinishCalls' = onFinishCalls
                /\ onFinishError' = onFinishError
                /\ thrown' = IF worker = 0 THEN "TypeError" ELSE "none"
        /\ UNCHANGED <<worker, document, error, importCalls>>

OnFileConvertedEvent_LastObjectFirst(w, resultContent, outcome) ==
    LET closure == workers[w]
        count == closure.convertedObjectCount + 1
        answered == [workers EXCEPT ![w].inflight = @ - 1,
                                    ![w].convertedObjectCount = count,
                                    ![w].outcomes = Append(@, outcome),
                                    ![w].meshCounts =
                                        Append(@, IF resultContent /= NullObject
                                                  THEN resultContent.meshes ELSE 0)]
    IN  /\ model' = IF resultContent /= NullObject
                    THEN OnFileConverted(model,
                                         closure.objects[Len(closure.objects) - count + 1],
                                         resultContent)
                    ELSE model
        /\ IF count = Len(closure.objects)
           THEN /\ workers' = [answered EXCEPT ![w].finished = @ + 1]
                /\ onFinishCalls' = onFinishCalls + 1
                /\ onFinishError' = error
                /\ thrown' = "none"
           ELSE /\ workers' = PostMessage(answered, worker)
                /\ onFinishCalls' = onFinishCalls
                /\ onFinishError' = onFinishError
                /\ thrown' = IF worker = 0 THEN "TypeError" ELSE "none"
        /\ UNCHANGED <<worker, document, error, importCalls>>

\* Lines 270-285: onFileConverted in the closure of worker w; resultContent is
\* NullObject for null.  outcome is the kind of the response, kept as history.
OnFileConvertedEvent(w, resultContent, outcome) ==
    LET closure == workers[w]
        count == closure.convertedObjectCount + 1
        answered == [workers EXCEPT ![w].inflight = @ - 1,
                                    ![w].convertedObjectCount = count,
                                    ![w].outcomes = Append(@, outcome),
                                    ![w].meshCounts =
                                        Append(@, IF resultContent /= NullObject
                                                  THEN resultContent.meshes ELSE 0)]
    IN  /\ model' = IF resultContent /= NullObject
                    THEN OnFileConverted(model, closure.objects[count], resultContent)
                    ELSE model
        /\ IF count = Len(closure.objects)
           THEN /\ workers' = [answered EXCEPT ![w].finished = @ + 1]
                /\ onFinishCalls' = onFinishCalls + 1
                /\ onFinishError' = error
                /\ thrown' = "none"
           ELSE /\ workers' = PostMessage(answered, worker)
                /\ onFinishCalls' = onFinishCalls
                /\ onFinishError' = onFinishError
                /\ thrown' = IF worker = 0 THEN "TypeError" ELSE "none"
        /\ UNCHANGED <<worker, document, error, importCalls>>

\* What the worker answers: success with some meshes, or success = false.
ResultContents ==
    [success : {TRUE}, meshes : 0..MaxMeshes] \cup [success : {FALSE}, meshes : {0}]

OutcomeOf(resultContent) ==
    IF ~resultContent.success THEN "failed"
    ELSE IF resultContent.meshes = 0 THEN "empty"
    ELSE "converted"

\* A worker answers a request as long as it was not terminated.  A response
\* after the last object of the list, which takes a request posted by the
\* closure of another worker, is not followed.
CanAnswer(w) ==
    /\ ~workers[w].terminated
    /\ workers[w].inflight > 0
    /\ workers[w].convertedObjectCount < Len(workers[w].objects)

\* Lines 287-289: the message listener.
OnWorkerMessage ==
    \E w \in 1..Len(workers) : \E data \in ResultContents :
        /\ CanAnswer(w)
        /\ op' = "message"
        /\ UNCHANGED otherThanQueue
        /\ OnFileConvertedEvent(w, data, OutcomeOf(data))

\* Lines 291-293: the error listener.
OnWorkerError ==
    \E w \in 1..Len(workers) :
        /\ CanAnswer(w)
        /\ op' = "error"
        /\ UNCHANGED otherThanQueue
        /\ OnFileConvertedEvent(w, NullObject, "error")

(***************************************************************************)
(* The archives ImportContent is called with.                              *)
(***************************************************************************)
ObjectDataElement(name, props, links) == [name |-> name, props |-> props, links |-> links]

LabelProperty(label) == Property("Label", <<Child("String", "value", label)>>)
VisibilityProperty(value) == Property("Visibility", <<Child("Bool", "value", value)>>)
ShapeProperty(file) == Property("Shape", <<Child("Part", "file", file)>>)

Archive(fileNames, documentXml, guiDocumentXml) ==
    [files |-> ArchiveBlobs @@ [n \in fileNames |-> XmlFiles[n]],
     documentXml |-> documentXml, guiDocumentXml |-> guiDocumentXml]

\* No Document.xml.
ArchiveNoDocumentXml == Archive({}, NullObject, NullObject)

\* Document.xml without a convertible object: a sketch and a hidden box.
ArchiveNoObjects ==
    Archive({"Document.xml"},
        [objects |-> <<ObjectElement("Sketch", TypeSketch), ObjectElement("Box", TypeBox)>>,
         data |-> <<ObjectDataElement("Box",
                        <<LabelProperty("Box"), ShapeProperty("PartShape.brp")>>, <<>>)>>],
        NullObject)

\* One convertible object with a label.
ArchiveOneObject ==
    Archive({"Document.xml", "GuiDocument.xml"},
        [objects |-> <<ObjectElement("Body", TypePad)>>,
         data |-> <<ObjectDataElement("Body",
                        <<LabelProperty("Body"), ShapeProperty("PartShape.brp")>>, <<>>)>>],
        [views |-> <<[name |-> "Body", props |-> <<VisibilityProperty("true")>>]>>])

\* Three convertible objects, the second without a label, and a fourth object
\* that the first one links to.
ArchiveThreeObjects ==
    Archive({"Document.xml"},
        [objects |-> <<ObjectElement("Body", TypePad), ObjectElement("Box", TypeBox),
                       ObjectElement("Base", TypeBox), ObjectElement("Cut", TypeBox)>>,
         data |-> <<ObjectDataElement("Body",
                        <<LabelProperty("Body"), VisibilityProperty("true"),
                          ShapeProperty("PartShape.brp")>>, <<"Base">>),
                    ObjectDataElement("Box",
                        <<VisibilityProperty("true"), ShapeProperty("PartShape1.brep")>>, <<>>),
                    ObjectDataElement("Base",
                        <<LabelProperty("Base"), VisibilityProperty("true"),
                          ShapeProperty("PartShape2.brp")>>, <<>>),
                    ObjectDataElement("Cut",
                        <<LabelProperty("Cut"), VisibilityProperty("true"),
                          ShapeProperty("PartShape2.brp")>>, <<>>)>>],
        NullObject)

Archives == {ArchiveNoDocumentXml, ArchiveNoObjects, ArchiveOneObject, ArchiveThreeObjects}

(***************************************************************************)
(* InputFile, ImporterFile and ImporterFileList (unnamed/part_001).        *)
(***************************************************************************)
\* fileutils.js: the kinds of source of a file.
FileSource == [Url |-> "Url", File |-> "File", Decompressed |-> "Decompressed", Blob |-> "Blob"]

\* GetFileName of the paths that occur in the model: the last component.
GetFileName(filePath) ==
    CASE filePath = "x/A.OBJ" -> "A.OBJ"
      [] OTHER -> filePath

\* String.prototype.toLowerCase on the file names that occur in the model.
ToLowerCase(str) ==
    CASE str = "A.OBJ" -> "a.obj"
      [] OTHER -> str

\* Lines 6-11.
InputFile(name, source, data) == [name |-> name, source |-> source, data |-> data]

\* Lines 45-52.
ImporterFile(name, source, data) ==
    [name |-> GetFileName(name), extension |-> GetFileExtension(name),
     source |-> source, data |-> data, content |-> Null]

\* Lines 54-57.
SetContent(file, content) == [file EXCEPT !.content = content]

\* Lines 67-74.
FillFromInputFiles(inputFiles) ==
    [i \in 1..Len(inputFiles) |->
        ImporterFile(inputFiles[i].name, inputFiles[i].source, inputFiles[i].data)]

\* Lines 111-121: the first file whose name is filePath's file name, case
\* ignored, or NullObject for null.
FindFileByPath(files, filePath) ==
    LET fileName == ToLowerCase(GetFileName(filePath))
        found == {fileIndex \in 1..Len(files) : ToLowerCase(files[fileIndex].name) = fileName}
    IN  IF found = {} THEN NullObject
        ELSE files[CHOOSE fileIndex \in found : \A other \in found : fileIndex <= other]

\* Lines 106-109.
ContainsFileByPath(files, filePath) == FindFileByPath(files, filePath) /= NullObject

\* Lines 76-85.
RECURSIVE ExtendFromFileList(_, _)
ExtendFromFileList(files, fileList) ==
    IF fileList = <<>> THEN files
    ELSE LET file == Head(fileList)
         IN  ExtendFromFileList(IF ~ContainsFileByPath(files, file.name)
                                THEN Append(files, file) ELSE files,
                                Tail(fileList))

IsOnlyUrlSource_UrlOnly(files) ==
    /\ Len(files) /= 0
    /\ \A i \in 1..Len(files) : files[i].source = FileSource.Url

\* Lines 123-135.
IsOnlyUrlSource(files) ==
    IF Len(files) = 0 THEN FALSE
    ELSE \A i \in 1..Len(files) :
            ~(files[i].source /= FileSource.Url /\ files[i].source /= FileSource.Decompressed)

\* Lines 137-140.
AddFile(files, file) == Append(files, file)

(***************************************************************************)
(* GetContent.  RunTasks (core/taskrunner.js) runs the tasks 0..count-1    *)
(* with a pool of poolSize tasks at a time and calls onReady when every    *)
(* task has called onTaskComplete, at once when count is 0.  A task is     *)
(* [state, outcome, onReady, progress]: onReady counts the calls of the    *)
(* per-file onReady callback.                                              *)
(***************************************************************************)
NewTask == [state |-> "waiting", outcome |-> "none", onReady |-> 0, progress |-> <<>>]

\* RunTasks (count, callbacks) before a task has started.
RunTasks(count, poolSize) ==
    [count |-> count, poolSize |-> poolSize, started |-> 0, completed |-> 0,
     onReady |-> IF count = 0 THEN 1 ELSE 0,
     tasks |-> [i \in 1..count |-> NewTask]]

\* onTaskComplete: the aggregate onReady is called with the last completion.
TaskComplete(run) ==
    LET completed == run.completed + 1
    IN  [run EXCEPT !.completed = completed,
                    !.onReady = IF completed >= run.count THEN @ + 1 ELSE @]

\* Line 98: the onReady callback GetFileContent is given for the file at
\* fileIndex is onTaskComplete.
OnFileReady(run, fileIndex) ==
    [TaskComplete(run) EXCEPT !.tasks[fileIndex].onReady = @ + 1]

GetFileContent_NoReadyWithoutLoader(run, file, fileIndex) ==
    IF file.content /= Null THEN
        OnFileReady([run EXCEPT !.tasks[fileIndex].state = "done",
                                !.tasks[fileIndex].outcome = "cached"], fileIndex)
    ELSE IF file.source \in {FileSource.Url, FileSource.File, FileSource.Blob} THEN
        [run EXCEPT !.tasks[fileIndex].state = "loading"]
    ELSE
        [run EXCEPT !.tasks[fileIndex].state = "done",
                    !.tasks[fileIndex].outcome = "no loader"]

\* Lines 142-159: GetFileContent up to the loader promise; it calls onReady at
\* once for a file that has its content and for a source without loader.
GetFileContent(run, file, fileIndex) ==
    IF file.content /= Null THEN
        OnFileReady([run EXCEPT !.tasks[fileIndex].state = "done",
                                !.tasks[fileIndex].outcome = "cached"], fileIndex)
    ELSE IF file.source \in {FileSource.Url, FileSource.File, FileSource.Blob} THEN
        [run EXCEPT !.tasks[fileIndex].state = "loading"]
    ELSE
        OnFileReady([run EXCEPT !.tasks[fileIndex].state = "done",
                                !.tasks[fileIndex].outcome = "no loader"], fileIndex)

\* Lines 95-100: runTask (index, onTaskComplete), index counted from 0.
RunTask(run, files, index) ==
    GetFileContent([run EXCEPT !.started = @ + 1,
                               !.tasks[index + 1].progress = <<index, Len(files)>>],
                   files[index + 1], index + 1)

OnLoaderCatch_AlsoReady(run, fileIndex) ==
    OnFileReady([run EXCEPT !.tasks[fileIndex].state = "settled",
                            !.tasks[fileIndex].outcome = "rejected"], fileIndex)

\* Lines 162-163: the catch callback does nothing.
OnLoaderCatch(run, fileIndex) ==
    [run EXCEPT !.tasks[fileIndex].state = "settled",
                !.tasks[fileIndex].outcome = "rejected"]

\* Lines 163-165: the finally callback calls onReady.
OnLoaderFinally(run, fileIndex) ==
    OnFileReady([run EXCEPT !.tasks[fileIndex].state = "done"], fileIndex)

\* Lines 160-161: the then callback is given the content; the content is set
\* in the action, the task is settled here.
OnLoaderThen(run, fileIndex) ==
    [run EXCEPT !.tasks[fileIndex].state = "settled",
                !.tasks[fileIndex].outcome = "resolved"]

(***************************************************************************)
(* SpecFiles: the calls on one ImporterFileList.  The list is changed      *)
(* only while no GetContent call is running on it.                         *)
(***************************************************************************)
InputFiles ==
    { InputFile("a.obj", FileSource.Url, "data"),
      InputFile("x/A.OBJ", FileSource.File, "data"),
      InputFile("b.mtl", FileSource.Blob, "data") }

\* The files of other lists: the input files, a decompressed file that has
\* its content and one that has not.
ImporterFiles ==
    { ImporterFile(inputFile.name, inputFile.source, inputFile.data) : inputFile \in InputFiles }
    \cup { SetContent(ImporterFile("b.mtl", FileSource.Decompressed, "data"), "bytes-1"),
           ImporterFile("A.OBJ", FileSource.Decompressed, "data") }

\* What a loader promise resolves with.
Contents == {"bytes-2"}

Running == fRun /= NullObject /\ \E i \in 1..fRun.count : fRun.tasks[i].state /= "done"

InitFiles ==
    /\ fFiles = <<>>
    /\ fRun = NullObject
    /\ fResult = FALSE
    /\ fOp = "constructor"
    /\ bContent = NullObject
    /\ bStage = "constructor"
    /\ bNext = 0
    /\ bModel = NullObject
    /\ bMaterials = <<>>
    /\ bMeshIdToMesh = <<>>
    /\ bError = Null
    /\ bFinish = 0
    /\ bExported = NullObject
    /\ bFirst = NullObject
    /\ EmbeddedViewer([onModelLoaded |-> FALSE])
    /\ NoMainModel
    /\ dDocument = FreeCadDocument(<<>>)
    /\ dStage = "Idle"
    /\ dObject = Null
    /\ dElement = NoElement
    /\ dRead = NoneRead
    /\ dList = <<>>
    /\ dDocVisible = {}
    /\ worker = 0
    /\ document = NullObject
    /\ workers = <<>>
    /\ model = EmptyModel
    /\ error = Null
    /\ onFinishCalls = 0
    /\ onFinishError = Null
    /\ importCalls = 0
    /\ thrown = "none"
    /\ op = "constructor"

FillFromInputFilesCall ==
    /\ ~Running
    /\ \E inputFiles \in SeqsUpTo(InputFiles, MaxFiles) :
        fFiles' = FillFromInputFiles(inputFiles)
    /\ fRun' = NullObject
    /\ fOp' = "FillFromInputFiles"
    /\ UNCHANGED fResult
    /\ UNCHANGED otherThanFiles

ExtendFromFileListCall ==
    /\ ~Running
    /\ \E fileList \in SeqsUpTo(ImporterFiles, MaxFiles) :
        /\ Len(ExtendFromFileList(fFiles, fileList)) <= MaxFiles
        /\ fFiles' = ExtendFromFileList(fFiles, fileList)
    /\ fRun' = NullObject
    /\ fOp' = "ExtendFromFileList"
    /\ UNCHANGED fResult
    /\ UNCHANGED otherThanFiles

AddFileCall ==
    /\ ~Running
    /\ Len(fFiles) < MaxFiles
    /\ \E file \in ImporterFiles : fFiles' = AddFile(fFiles, file)
    /\ fRun' = NullObject
    /\ fOp' = "AddFile"
    /\ UNCHANGED fResult
    /\ UNCHANGED otherThanFiles

IsOnlyUrlSourceCall ==
    /\ fResult' = IsOnlyUrlSource(fFiles)
    /\ fOp' = "IsOnlyUrlSource"
    /\ UNCHANGED <<fFiles, fRun>>
    /\ UNCHANGED otherThanFiles

\* Lines 92-104.
GetContentCall ==
    /\ ~Running
    /\ \E poolSize \in 1..MaxPool : fRun' = RunTasks(Len(fFiles), poolSize)
    /\ fOp' = "GetContent"
    /\ UNCHANGED <<fFiles, fResult>>
    /\ UNCHANGED otherThanFiles

\* The task runner calls runTask for the next index when the pool has room.
StartTask ==
    /\ Running
    /\ fRun.started < fRun.count
    /\ fRun.started - fRun.completed < fRun.poolSize
    /\ fRun' = RunTask(fRun, fFiles, fRun.started)
    /\ fOp' = "runTask"
    /\ UNCHANGED <<fFiles, fResult>>
    /\ UNCHANGED otherThanFiles

\* The loader promise of a file is fulfilled: the then callback runs.
LoaderResolved ==
    /\ Running
    /\ \E fileIndex \in 1..fRun.count :
        /\ fRun.tasks[fileIndex].state = "loading"
        /\ \E content \in Contents :
            fFiles' = [fFiles EXCEPT ![fileIndex] = SetContent(@, content)]
        /\ fRun' = OnLoaderThen(fRun, fileIndex)
    /\ fOp' = "then"
    /\ UNCHANGED fResult
    /\ UNCHANGED otherThanFiles

\* The loader promise of a file is rejected: the catch callback runs.
LoaderRejected ==
    /\ Running
    /\ \E fileIndex \in 1..fRun.count :
        /\ fRun.tasks[fileIndex].state = "loading"
        /\ fRun' = OnLoaderCatch(fRun, fileIndex)
    /\ fOp' = "catch"
    /\ UNCHANGED <<fFiles, fResult>>
    /\ UNCHANGED otherThanFiles

\* The finally callback of a file runs after its then or catch callback.
LoaderSettled ==
    /\ Running
    /\ \E fileIndex \in 1..fRun.count :
        /\ fRun.tasks[fileIndex].state = "settled"
        /\ fRun' = OnLoaderFinally(fRun, fileIndex)
    /\ fOp' = "finally"
    /\ UNCHANGED <<fFiles, fResult>>
    /\ UNCHANGED otherThanFiles

NextFiles ==
    \/ FillFromInputFilesCall
    \/ ExtendFromFileListCall
    \/ AddFileCall
    \/ IsOnlyUrlSourceCall
    \/ GetContentCall
    \/ StartTask
    \/ LoaderResolved
    \/ LoaderRejected
    \/ LoaderSettled

(***************************************************************************)
(* ImporterBim (unnamed/part_002).  A JSON array or object that may be     *)
(* absent is [present, items]; a number that may be undefined or null is   *)
(* the number, Undefined or NullIndex.                                     *)
(***************************************************************************)
Undefined == 0 - 2
NullIndex == 0 - 1

Absent == [present |-> FALSE, items |-> <<>>]
Present(items) == [present |-> TRUE, items |-> items]

\* items[index] of JavaScript: index counts from 0, undefined past the end.
At(items, index) ==
    IF index >= 0 /\ index < Len(items) THEN items[index + 1] ELSE Undefined

\* A value is truthy unless it is undefined, null or 0 (lines 102, 139).
Truthy(value) == value /= Undefined /\ value /= NullIndex /\ value /= 0

\* ColorToMaterialConverter.GetMaterialIndex: the index of the material of
\* the color <<r, g, b, a>>, which is added to the materials of the model
\* when no material has that color yet.  Gives [materials, index].
GetMaterialIndex(materials, r, g, b, a) ==
    LET color == <<r, g, b, a>>
        found == {i \in 1..Len(materials) : materials[i] = color}
    IN  IF found /= {}
        THEN [materials |-> materials, index |-> (CHOOSE i \in found : TRUE) - 1]
        ELSE [materials |-> Append(materials, color), index |-> Len(materials)]

\* ColorToVertexColorsConverter.GetVertexColorIndex: the same for the vertex
\* colors of one mesh; color is the four channels the argument carries.
GetVertexColorIndex(vertexColors, color) ==
    LET found == {i \in 1..Len(vertexColors) : vertexColors[i] = color}
    IN  IF found /= {}
        THEN [vertexColors |-> vertexColors, index |-> (CHOOSE i \in found : TRUE) - 1]
        ELSE [vertexColors |-> Append(vertexColors, color), index |-> Len(vertexColors)]

\* new Mesh ().
NewMesh ==
    [name |-> Null, vertices |-> <<>>, triangles |-> <<>>, vertexColors |-> <<>>,
     propertyGroups |-> <<>>]

\* this.model of a new importer, without its materials.
EmptyBimModel == [meshes |-> <<>>, root |-> <<>>, propertyGroups |-> <<>>]

\* new Triangle (v0, v1, v2): no material and no vertex colors.
Triangle(v0, v1, v2) ==
    [v0 |-> v0, v1 |-> v1, v2 |-> v2, mat |-> NullIndex,
     c0 |-> NullIndex, c1 |-> NullIndex, c2 |-> NullIndex]

\* Lines 194-200 and 220-226: the loop over the coordinates, from offset i.
RECURSIVE AddVertices(_, _, _)
AddVertices(mesh, coordinates, i) ==
    IF ~(i < Len(coordinates)) THEN mesh
    ELSE AddVertices([mesh EXCEPT !.vertices =
                        Append(@, <<At(coordinates, i), At(coordinates, i + 1),
                                    At(coordinates, i + 2)>>)],
                     coordinates, i + 3)

GetMaterialIndexOfTriangle_FirstEntry(kind, bimElement, bimMesh, defaultMaterialIndex, materials, triangleIndex) ==
    LET items == IF kind = "face_colors" THEN bimElement.face_colors.items
                 ELSE bimMesh.colors.items
    IN  IF kind = "colors" /\ Truthy(defaultMaterialIndex)
        THEN [materials |-> materials, index |-> defaultMaterialIndex]
        ELSE GetMaterialIndex(materials, At(items, 0), At(items, 1),
                              At(items, 2), At(items, 3))

GetMaterialIndexOfTriangle_FaceColorsFirst(kind, bimElement, bimMesh, defaultMaterialIndex, materials, triangleIndex) ==
    LET items == IF bimElement.face_colors.present THEN bimElement.face_colors.items
                 ELSE bimMesh.colors.items
    IN  IF ~bimElement.face_colors.present /\ Truthy(defaultMaterialIndex)
        THEN [materials |-> materials, index |-> defaultMaterialIndex]
        ELSE GetMaterialIndex(materials,
                              At(items, triangleIndex * 4 + 0),
                              At(items, triangleIndex * 4 + 1),
                              At(items, triangleIndex * 4 + 2),
                              At(items, triangleIndex * 4 + 3))

\* Lines 92-106 ("face_colors") and 138-154 ("colors"): the callback that
\* gives the material of triangle triangleIndex.  Gives [materials, index].
GetMaterialIndexOfTriangle(kind, bimElement, bimMesh, defaultMaterialIndex, materials, triangleIndex) ==
    LET DefaultGray == GetMaterialIndex(materials, 200, 200, 200, 255)
        OfArray(items) ==
            GetMaterialIndex(materials,
                             At(items, triangleIndex * 4 + 0),
                             At(items, triangleIndex * 4 + 1),
                             At(items, triangleIndex * 4 + 2),
                             At(items, triangleIndex * 4 + 3))
        Default == [materials |-> materials, index |-> defaultMaterialIndex]
    IN  IF kind = "face_colors"
        THEN IF bimElement.face_colors.present
             THEN OfArray(bimElement.face_colors.items)
             ELSE IF Truthy(defaultMaterialIndex) THEN Default ELSE DefaultGray
        ELSE IF Truthy(defaultMaterialIndex)
             THEN Default
             ELSE IF bimMesh.colors.present
                  THEN OfArray(bimMesh.colors.items)
                  ELSE DefaultGray

\* Lines 202-210: the loop over the indices, from offset i.
\* Gives [mesh, materials].
RECURSIVE AddMaterialTriangles(_, _, _, _, _, _, _)
AddMaterialTriangles(mesh, kind, bimElement, bimMesh, defaultMaterialIndex, materials, i) ==
    IF ~(i < Len(bimMesh.indices))
    THEN [mesh |-> mesh, materials |-> materials]
    ELSE LET triangle == Triangle(At(bimMesh.indices, i + 0),
                                  At(bimMesh.indices, i + 1),
                                  At(bimMesh.indices, i + 2))
             got == GetMaterialIndexOfTriangle(kind, bimElement, bimMesh,
                                               defaultMaterialIndex,
                                               materials, i \div 3)
         IN  AddMaterialTriangles(
                 [mesh EXCEPT !.triangles =
                     Append(@, [triangle EXCEPT !.mat = got.index])],
                 kind, bimElement, bimMesh, defaultMaterialIndex,
                 got.materials, i + 3)

\* ImportMeshMaterial (bimMesh, getMaterialIndex).  Gives [mesh, materials].
ImportMeshMaterial(kind, bimElement, bimMesh, defaultMaterialIndex, materials) ==
    AddMaterialTriangles(AddVertices(NewMesh, bimMesh.coordinates, 0),
                         kind, bimElement, bimMesh, defaultMaterialIndex,
                         materials, 0)

\* Lines 120-134, the callback of the vertex color mode: the loop runs for
\* c = 0 only, the color it reads from colors[t * 12 + 0..3] is dropped and
\* colors_array is pushed into itself.  The array it gives has one item,
\* which carries no channel.
GetVertexColors(bimMesh, vertexColorsTriangle) ==
    << <<Undefined, Undefined, Undefined, Undefined>> >>

\* colors.map (color => GetVertexColorIndex (color)) from item k on.
\* Gives [vertexColors, index], index the array of the indices.
RECURSIVE MapVertexColorIndex(_, _, _, _)
MapVertexColorIndex(vertexColors, colors, k, index) ==
    IF k > Len(colors)
    THEN [vertexColors |-> vertexColors, index |-> index]
    ELSE LET got == GetVertexColorIndex(vertexColors, colors[k])
         IN  MapVertexColorIndex(got.vertexColors, colors, k + 1,
                                 Append(index, got.index))

\* Lines 228-238: the loop over the indices, from offset i.
RECURSIVE AddVertexColorTriangles(_, _, _)
AddVertexColorTriangles(mesh, bimMesh, i) ==
    IF ~(i < Len(bimMesh.indices))
    THEN mesh
    ELSE LET triangle == Triangle(At(bimMesh.indices, i + 0),
                                  At(bimMesh.indices, i + 1),
                                  At(bimMesh.indices, i + 2))
             colors == GetVertexColors(bimMesh, i \div 3)
             got == MapVertexColorIndex(mesh.vertexColors, colors, 1, <<>>)
         IN  AddVertexColorTriangles(
                 [mesh EXCEPT !.vertexColors = got.vertexColors,
                              !.triangles =
                                  Append(@, [triangle EXCEPT
                                                !.c0 = At(got.index, 0),
                                                !.c1 = At(got.index, 1),
                                                !.c2 = At(got.index, 2)])],
                 bimMesh, i + 3)

\* ImportMeshVertexColors (bimMesh, getVertexColors).
ImportMeshVertexColors(bimMesh) ==
    AddVertexColorTriangles(AddVertices(NewMesh, bimMesh.coordinates, 0),
                            bimMesh, 0)

\* Line 118 with lines 112-113: colors.length / 4 >= indices.length.
IsVertexColorMode_PerTriangle(bimMesh) ==
    3 * Len(bimMesh.colors.items) >= 4 * Len(bimMesh.indices)

IsVertexColorMode(bimMesh) ==
    Len(bimMesh.colors.items) >= 4 * Len(bimMesh.indices)

\* meshIdToMesh.get (mesh_id): the mesh that was set last under the id.
MeshIdToMeshHas(meshIdToMesh, mesh_id) ==
    \E i \in 1..Len(meshIdToMesh) : meshIdToMesh[i].mesh_id = mesh_id

MeshIdToMeshGet(meshIdToMesh, mesh_id) ==
    LET at == {i \in 1..Len(meshIdToMesh) : meshIdToMesh[i].mesh_id = mesh_id}
    IN  meshIdToMesh[CHOOSE i \in at : \A j \in at : j <= i]

ElementNode_AllMeshes(meshIndex) ==
    [type |-> "MeshNode", meshIndices |-> [k \in 1..(meshIndex + 1) |-> k - 1]]

\* The node of an element (lines 161-184).
ElementNode(meshIndex) == [type |-> "MeshNode", meshIndices |-> <<meshIndex>>]

\* ImportElement (bimElement) on the model and the materials of the
\* importer.  Gives [model, materials, mesh, thrown]; mesh is NullObject
\* where the code returns null, thrown is the error that ends the call.
ImportElement(model_, materials, meshIdToMesh, bimElement) ==
    LET color == bimElement.color
        default == IF color.present
                   THEN GetMaterialIndex(materials, color.items[1], color.items[2],
                                         color.items[3], color.items[4])
                   ELSE [materials |-> materials, index |-> NullIndex]
        Throw(materials_) ==
            [model |-> model_, materials |-> materials_,
             mesh |-> NullObject, thrown |-> "TypeError"]
    IN  IF ~MeshIdToMeshHas(meshIdToMesh, bimElement.mesh_id)
        THEN Throw(default.materials)
        ELSE
        LET bimMesh == MeshIdToMeshGet(meshIdToMesh, bimElement.mesh_id)
            faces == IF bimElement.face_colors.present
                     THEN ImportMeshMaterial("face_colors", bimElement, bimMesh,
                                             default.index, default.materials)
                     ELSE [mesh |-> NullObject, materials |-> default.materials]
            built == IF ~bimMesh.colors.present
                     THEN faces
                     ELSE IF IsVertexColorMode(bimMesh)
                          THEN [mesh |-> ImportMeshVertexColors(bimMesh),
                                materials |-> faces.materials]
                          ELSE ImportMeshMaterial("colors", bimElement, bimMesh,
                                                  default.index, faces.materials)
            meshIndex == Len(model_.meshes)
        IN  [model |-> AddChildNode(AddMesh(model_, built.mesh),
                                    ElementNode(meshIndex)),
             materials |-> built.materials,
             mesh |-> built.mesh,
             thrown |-> Null]

\* The properties AddProperty adds to the group for the entries of info from
\* entry k on: the entries whose value is a string (lines 262-268).
RECURSIVE InfoProperties(_, _)
InfoProperties(info, k) ==
    IF k > Len(info) THEN <<>>
    ELSE (IF info[k].string
          THEN <<[name |-> info[k].name, value |-> info[k].value]>>
          ELSE <<>>) \o InfoProperties(info, k + 1)

ImportProperties_AlwaysGroup(source) ==
    <<[name |-> "Info",
       properties |->
           (IF source.guid /= Null
            THEN <<[name |-> "Guid", value |-> source.guid]>> ELSE <<>>)
           \o (IF source.type /= Null
               THEN <<[name |-> "Type", value |-> source.type]>> ELSE <<>>)
           \o InfoProperties(source.info.items, 1)]>>

\* ImportProperties (source, target): the property groups it adds to target.
ImportProperties(source) ==
    IF ~source.info.present \/ source.info.items = <<>>
    THEN <<>>
    ELSE <<[name |-> "Info",
            properties |->
                (IF source.guid /= Null
                 THEN <<[name |-> "Guid", value |-> source.guid]>> ELSE <<>>)
                \o (IF source.type /= Null
                    THEN <<[name |-> "Type", value |-> source.type]>> ELSE <<>>)
                \o InfoProperties(source.info.items, 1)]>>

(***************************************************************************)
(* ExporterBim (unnamed/part_000).                                         *)
(***************************************************************************)
\* null of JSON: what JSON.stringify writes for undefined and NaN in an array.
JsonNull == 0 - 3

Stringify(value) == IF value = Undefined THEN JsonNull ELSE value

\* ColorComponentToFloat and ColorComponentFromFloat (model/color.js):
\* component / 255 as a fraction, and the fraction times 255 rounded.  The
\* fraction of undefined is NaN, whose denominator is 0 here.
ColorComponentToFloat(component) ==
    IF component < 0 THEN [num |-> 0, den |-> 0] ELSE [num |-> component, den |-> 255]

ColorComponentFromFloat(float) ==
    IF float.den = 0 THEN Undefined
    ELSE (2 * 255 * float.num + float.den) \div (2 * float.den)

\* targetObject[name] = value: an entry keeps its place when it is written again.
SetEntry(entries, name, value) ==
    IF \E k \in 1..Len(entries) : entries[k].name = name
    THEN [k \in 1..Len(entries) |->
             IF entries[k].name = name
             THEN [name |-> name, string |-> TRUE, value |-> value]
             ELSE entries[k]]
    ELSE Append(entries, [name |-> name, string |-> TRUE, value |-> value])

\* The loop over the properties of one group, from property k on (lines 100-103).
RECURSIVE ExportGroup(_, _, _)
ExportGroup(properties, k, entries) ==
    IF k > Len(properties) THEN entries
    ELSE ExportGroup(properties, k + 1,
                     SetEntry(entries, properties[k].name, properties[k].value))

\* ExportProperties (element, targetObject), from group g on (lines 97-105).
RECURSIVE ExportProperties(_, _, _)
ExportProperties(propertyGroups, g, entries) ==
    IF g > Len(propertyGroups) THEN entries
    ELSE ExportProperties(propertyGroups, g + 1,
                          ExportGroup(propertyGroups[g].properties, 1, entries))

\* Lines 43-45: the coordinates of the vertices from vertex k on.
RECURSIVE ExportCoordinates(_, _)
ExportCoordinates(vertices, k) ==
    IF k > Len(vertices) THEN <<>>
    ELSE <<Stringify(vertices[k][1]), Stringify(vertices[k][2]),
           Stringify(vertices[k][3])>> \o ExportCoordinates(vertices, k + 1)

\* Lines 46-48: the vertex indices of the triangles from triangle k on.
RECURSIVE ExportIndices(_, _)
ExportIndices(triangles, k) ==
    IF k > Len(triangles) THEN <<>>
    ELSE <<Stringify(triangles[k].v0), Stringify(triangles[k].v1),
           Stringify(triangles[k].v2)>> \o ExportIndices(triangles, k + 1)

\* exporterModel.GetMaterial (triangle.mat) finds a material.
HasMaterial(materials, mat) == mat >= 0 /\ mat < Len(materials)

\* Lines 68-79: the colors of the triangles from triangle k on; every
\* triangle has a material.
RECURSIVE ExportColors(_, _, _)
ExportColors(triangles, materials, k) ==
    IF k > Len(triangles) THEN <<>>
    ELSE LET material == materials[triangles[k].mat + 1]
         IN  <<Stringify(material[1]), Stringify(material[2]), Stringify(material[3]),
               Stringify(ColorComponentFromFloat(ColorComponentToFloat(material[4])))>>
             \o ExportColors(triangles, materials, k + 1)

\* The meshes that EnumerateTransformedMeshes visits: the meshes of the
\* nodes under the root, in their order.
RECURSIVE TransformedMeshes(_, _)
TransformedMeshes(model_, n) ==
    IF n > Len(model_.root) THEN <<>>
    ELSE [k \in 1..Len(model_.root[n].meshIndices) |->
             model_.meshes[model_.root[n].meshIndices[k] + 1]]
         \o TransformedMeshes(model_, n + 1)

\* Lines 36-41 and 68-80: the JSON mesh of a mesh.
ExportMesh(mesh, materials, meshId) ==
    [mesh_id |-> meshId,
     coordinates |-> ExportCoordinates(mesh.vertices, 1),
     indices |-> ExportIndices(mesh.triangles, 1),
     colors |-> Present(ExportColors(mesh.triangles, materials, 1))]

\* Lines 50-65 and 82-83: the JSON element of a mesh.  A name that is
\* undefined is left out by JSON.stringify.
ExportElement(mesh, meshId, guid) ==
    [mesh_id |-> meshId, type |-> "Other", guid |-> guid,
     color |-> Absent, face_colors |-> Absent,
     info |-> Present(ExportProperties(
                         mesh.propertyGroups, 1,
                         IF mesh.name = Null THEN <<>>
                         ELSE SetEntry(<<>>, "Name", mesh.name)))]

\* ExportContent (exporterModel, format, files, onFinish) and the JSON.parse
\* of the file it writes.  Gives [thrown, content]: reading the color of the
\* material of a triangle that has none raises a TypeError (line 72).
ExportContent(model_, materials, guid) ==
    LET meshes == TransformedMeshes(model_, 1)
    IN  IF \E k \in 1..Len(meshes) : \E t \in 1..Len(meshes[k].triangles) :
              ~HasMaterial(materials, meshes[k].triangles[t].mat)
        THEN [thrown |-> "TypeError", content |-> NullObject]
        ELSE [thrown |-> Null,
              content |->
                 [parses |-> TRUE,
                  meshes |-> Present([k \in 1..Len(meshes) |->
                                         ExportMesh(meshes[k], materials, k - 1)]),
                  elements |-> Present([k \in 1..Len(meshes) |->
                                           ExportElement(meshes[k], k - 1, guid)]),
                  info |-> Present(ExportProperties(model_.propertyGroups, 1, <<>>)),
                  guid |-> Null, type |-> Null]]

(***************************************************************************)
(* SpecBim: ImportContent on file contents of a bounded set.  A file       *)
(* content is what JSON.parse makes of it, or the mark that it fails.      *)
(***************************************************************************)
Red == <<255, 0, 0, 255>>
Blue == <<0, 0, 255, 255>>

\* The RGBA entries 0..count-1 written one after the other: all Red, or Red
\* and Blue in turn from either of them.
RECURSIVE ColorArray(_, _, _)
ColorArray(pattern, count, j) ==
    IF j >= count THEN <<>>
    ELSE (CASE pattern = "same" -> Red
            [] pattern = "turns" -> IF j % 2 = 0 THEN Red ELSE Blue
            [] OTHER -> IF j % 2 = 0 THEN Blue ELSE Red)
         \o ColorArray(pattern, count, j + 1)

ColorArrays(maxCount) ==
    {ColorArray(pattern, count, 0) :
        pattern \in {"same", "turns", "other"}, count \in 0..maxCount}

\* The corners of the triangles 1..count of a mesh of four vertices.
RECURSIVE TriangleIndices(_)
TriangleIndices(count) ==
    IF count = 0 THEN <<>>
    ELSE TriangleIndices(count - 1)
         \o <<0, 1 + ((count - 1) % 2), 2 + ((count - 1) % 2)>>

FourVertices == <<0, 0, 0, 1, 0, 0, 1, 1, 0, 0, 1, 0>>

BimMesh(indices, colors) ==
    [mesh_id |-> 0, coordinates |-> FourVertices, indices |-> indices, colors |-> colors]

\* Meshes of 1..MaxTriangles triangles without colors or with up to one RGBA
\* entry per corner, and one mesh whose triangle names a vertex that the
\* mesh does not have.
BimMeshes ==
    UNION {{BimMesh(TriangleIndices(count), colors) :
                colors \in {Absent} \cup {Present(c) : c \in ColorArrays(3 * count)}} :
           count \in 1..MaxTriangles}
    \cup {BimMesh(<<0, 1, 4>>, Present(Red))}

BimElement(mesh_id, color, face_colors, info) ==
    [mesh_id |-> mesh_id, type |-> "Wall", guid |-> "guid-1",
     color |-> color, face_colors |-> face_colors, info |-> info]

InfoItems ==
    <<[name |-> "Name", string |-> TRUE, value |-> "Wall-1"],
      [name |-> "Height", string |-> FALSE, value |-> "3"]>>

\* Elements with and without a color and face_colors, with the kinds of
\* info maps, without a guid, without a type, and one that names a mesh
\* that does not exist.
BimElements ==
    {BimElement(0, color, face_colors, Absent) :
        color \in {Absent, Present(Red)},
        face_colors \in {Absent, Present(Red \o Blue)}}
    \cup {BimElement(0, Absent, Absent, info) :
            info \in {Present(<<>>), Present(InfoItems), Present(Tail(InfoItems))}}
    \cup {[BimElement(0, Absent, Absent, Present(InfoItems)) EXCEPT !.guid = Null],
           [BimElement(0, Absent, Absent, Present(InfoItems)) EXCEPT !.type = Null]}
    \cup {BimElement(1, Absent, Absent, Absent)}

BimJson(meshes, elements) ==
    [parses |-> TRUE, meshes |-> meshes, elements |-> elements,
     info |-> Absent, guid |-> Null, type |-> Null]

NotJson ==
    [parses |-> FALSE, meshes |-> Absent, elements |-> Absent,
     info |-> Absent, guid |-> Null, type |-> Null]

BimFileContents ==
    {BimJson(Present(<<bimMesh>>), Present(elements)) :
        bimMesh \in BimMeshes, elements \in SeqsUpTo(BimElements, MaxElements)}
    \cup {BimJson(Absent, Present(<<>>)), BimJson(Present(<<>>), Absent), NotJson}

\* The state after the constructor and the ResetContent of ImporterBase.Import.
InitBim ==
    /\ bContent \in BimFileContents
    /\ bStage = "ResetContent"
    /\ bNext = 0
    /\ bModel = EmptyBimModel
    /\ bMaterials = <<>>
    /\ bMeshIdToMesh = <<>>
    /\ bError = Null
    /\ bFinish = 0
    /\ bExported = NullObject
    /\ bFirst = NullObject
    /\ EmbeddedViewer([onModelLoaded |-> FALSE])
    /\ NoMainModel
    /\ dDocument = FreeCadDocument(<<>>)
    /\ dStage = "Idle"
    /\ dObject = Null
    /\ dElement = NoElement
    /\ dRead = NoneRead
    /\ dList = <<>>
    /\ dDocVisible = {}
    /\ worker = 0
    /\ document = NullObject
    /\ workers = <<>>
    /\ model = EmptyModel
    /\ error = Null
    /\ onFinishCalls = 0
    /\ onFinishError = Null
    /\ importCalls = 0
    /\ thrown = "none"
    /\ op = "constructor"
    /\ fFiles = <<>>
    /\ fRun = NullObject
    /\ fResult = FALSE
    /\ fOp = "constructor"

\* ImportContent down to the loop over the elements (lines 45-61).
BimImportContent ==
    /\ bStage = "ResetContent"
    /\ IF ~bContent.parses
       THEN /\ bError' = "Failed to parse bim file."
            /\ bFinish' = bFinish + 1
            /\ bStage' = "returned"
            /\ UNCHANGED <<bNext, bModel, bMeshIdToMesh>>
       ELSE IF ~bContent.meshes.present
       THEN /\ bStage' = "TypeError"
            /\ UNCHANGED <<bNext, bModel, bMeshIdToMesh, bError, bFinish>>
       ELSE /\ bMeshIdToMesh' = bMeshIdToMesh \o bContent.meshes.items
            /\ bModel' = [bModel EXCEPT !.propertyGroups =
                                           @ \o ImportProperties(bContent)]
            /\ IF bContent.elements.present
               THEN bStage' = "elements" /\ bNext' = 1
               ELSE bStage' = "TypeError" /\ UNCHANGED bNext
            /\ UNCHANGED <<bError, bFinish>>
    /\ UNCHANGED <<bContent, bMaterials, bExported, bFirst>>
    /\ UNCHANGED otherThanBim

\* One turn of the loop over the elements (lines 62-66).
BimImportElement ==
    /\ bStage = "elements"
    /\ bNext <= Len(bContent.elements.items)
    /\ LET bimElement == bContent.elements.items[bNext]
           imported == ImportElement(bModel, bMaterials, bMeshIdToMesh, bimElement)
           last == Len(imported.model.meshes)
       IN  /\ bMaterials' = imported.materials
           /\ IF imported.thrown /= Null \/ imported.mesh = NullObject
              THEN /\ bModel' = imported.model
                   /\ bStage' = "TypeError"
                   /\ UNCHANGED bNext
              ELSE /\ bModel' =
                        [imported.model EXCEPT
                            !.meshes[last].name = bimElement.type,
                            !.meshes[last].propertyGroups =
                                @ \o ImportProperties(bimElement)]
                   /\ bNext' = bNext + 1
                   /\ UNCHANGED bStage
    /\ UNCHANGED <<bContent, bMeshIdToMesh, bError, bFinish, bExported, bFirst>>
    /\ UNCHANGED otherThanBim

\* The end of the loop: onFinish () (line 68).
BimOnFinish ==
    /\ bStage = "elements"
    /\ bNext > Len(bContent.elements.items)
    /\ bFinish' = bFinish + 1
    /\ bStage' = "returned"
    /\ UNCHANGED <<bContent, bNext, bModel, bMaterials, bMeshIdToMesh, bError,
                   bExported, bFirst>>
    /\ UNCHANGED otherThanBim

\* The identifiers GenerateGuid may give (lines 6-14).
GeneratedGuids == {"guid-2"}

\* ExporterBim.ExportContent on the model of an import that is over.
BimExportContent ==
    /\ bStage = "returned"
    /\ bContent.parses
    /\ bExported = NullObject
    /\ \E guid \in GeneratedGuids :
          bExported' = ExportContent(bModel, bMaterials, guid)
    /\ UNCHANGED <<bContent, bStage, bNext, bModel, bMaterials, bMeshIdToMesh,
                   bError, bFinish, bFirst>>
    /\ UNCHANGED otherThanBim

\* The exported file is given to a new ImporterBim, after its ResetContent.
BimImportExported ==
    /\ bExported /= NullObject
    /\ bExported.thrown = Null
    /\ bFirst = NullObject
    /\ bFirst' = [model |-> bModel, materials |-> bMaterials]
    /\ bContent' = bExported.content
    /\ bStage' = "ResetContent"
    /\ bNext' = 0
    /\ bModel' = EmptyBimModel
    /\ bMaterials' = <<>>
    /\ bMeshIdToMesh' = <<>>
    /\ bError' = Null
    /\ bFinish' = 0
    /\ UNCHANGED bExported
    /\ UNCHANGED otherThanBim

NextBim ==
    \/ BimImportContent
    \/ BimImportElement
    \/ BimOnFinish
    \/ BimExportContent
    \/ BimImportExported

(***************************************************************************)
(* The specifications.                                                     *)
(***************************************************************************)
\* The importer as its constructor leaves it (lines 220-225), with an empty
\* model; no document is being read element by element.

(***************************************************************************)
(* EmbeddedViewer (source/engine/viewer/embeddedviewer.js).  The model     *)
(* loader invokes the callbacks of one load in the order onLoadStart,      *)
(* onImportStart, onVisualizationStart, onModelFinished, or onLoadError    *)
(* in place of a later one; a load ends before the next one starts.        *)
(***************************************************************************)
\* document.createElement ('div') of the load with the given number.
Div(id, innerHTML) == [tag |-> "div", id |-> id, innerHTML |-> innerHTML]

IsProgressDiv(element, id) == element.tag = "div" /\ element.id = id

\* progressDiv.innerHTML = innerHTML.
SetInnerHTML(children, id, innerHTML) ==
    [c \in DOMAIN children |->
        IF IsProgressDiv(children[c], id) THEN Div(id, innerHTML) ELSE children[c]]

\* parentElement.removeChild (progressDiv).
RemoveChild(children, id) ==
    SelectSeq(children, LAMBDA element : ~IsProgressDiv(element, id))

\* Lines 174-184: the message onLoadError shows.
ErrorMessage(importError) ==
    LET message == CASE importError.code = "NoImportableFile" -> "No importable file found."
                     [] importError.code = "FailedToLoadFile" -> "Failed to load file for import."
                     [] importError.code = "ImportFailed" -> "Failed to import model."
                     [] OTHER -> "Unknown error."
    IN  IF importError.message /= Null
        THEN message \o " (" \o importError.message \o ")"
        ELSE message

\* The input lists: null, an empty list and a list of one file.
InputFileLists ==
    {[isNull |-> TRUE, length |-> 0], [isNull |-> FALSE, length |-> 0],
     [isNull |-> FALSE, length |-> 1]}

\* What a load that succeeds gives to onModelFinished.
ImportResults == {[model |-> [name |-> "Model"], threeObject |-> [name |-> "Object"]]}

ImportErrors ==
    [code : {"NoImportableFile", "FailedToLoadFile", "ImportFailed", "Other"},
     message : {Null, "detail"}]

InitViewer ==
    /\ \E parameters \in [onModelLoaded : BOOLEAN] : EmbeddedViewer(parameters)
    /\ NoMainModel
    /\ worker = 0
    /\ document = NullObject
    /\ workers = <<>>
    /\ model = EmptyModel
    /\ error = Null
    /\ onFinishCalls = 0
    /\ onFinishError = Null
    /\ importCalls = 0
    /\ thrown = "none"
    /\ op = "constructor"
    /\ dDocument = FreeCadDocument(<<>>)
    /\ dStage = "Idle"
    /\ dObject = Null
    /\ dElement = NoElement
    /\ dRead = NoneRead
    /\ dList = <<>>
    /\ dDocVisible = {}
    /\ fFiles = <<>>
    /\ fRun = NullObject
    /\ fResult = FALSE
    /\ fOp = "constructor"
    /\ bContent = NullObject
    /\ bStage = "constructor"
    /\ bNext = 0
    /\ bModel = NullObject
    /\ bMaterials = <<>>
    /\ bMeshIdToMesh = <<>>
    /\ bError = Null
    /\ bFinish = 0
    /\ bExported = NullObject
    /\ bFirst = NullObject

\* Lines 119-133: LoadModelFromInputFiles up to the call of LoadModel.
LoadModelFromInputFiles ==
    /\ \E inputFiles \in InputFileLists :
        IF inputFiles.isNull \/ inputFiles.length = 0
        THEN /\ eOp' = "LoadModelFromInputFiles (nothing)"
             /\ UNCHANGED <<eModel, eMainObject, eLoad, eLoads>>
        ELSE /\ eLoad = NullObject
             /\ eLoads < MaxLoads
             /\ eOp' = "LoadModelFromInputFiles"
             /\ eMainObject' = NullObject
             /\ eModel' = NullObject
             /\ eLoad' = [stage |-> "called", progressDiv |-> 0]
             /\ eLoads' = eLoads + 1
    /\ UNCHANGED <<eParameters, eDisplay, eChildren, eLoaded>>
    /\ UNCHANGED otherThanViewer

\* Lines 134-139.
OnLoadStart ==
    /\ eLoad /= NullObject
    /\ eLoad.stage = "called"
    /\ eDisplay' = "none"
    /\ eChildren' = Append(eChildren, Div(eLoads, "Loading model..."))
    /\ eLoad' = [stage |-> "started", progressDiv |-> eLoads]
    /\ eOp' = "onLoadStart"
    /\ UNCHANGED <<eParameters, eModel, eMainObject, eLoads, eLoaded>>
    /\ UNCHANGED otherThanViewer

\* Lines 144-146.
OnImportStart ==
    /\ eLoad /= NullObject
    /\ eLoad.stage = "started"
    /\ eChildren' = SetInnerHTML(eChildren, eLoad.progressDiv, "Importing model...")
    /\ eLoad' = [eLoad EXCEPT !.stage = "importing"]
    /\ eOp' = "onImportStart"
    /\ UNCHANGED <<eParameters, eModel, eDisplay, eMainObject, eLoads, eLoaded>>
    /\ UNCHANGED otherThanViewer

\* Lines 147-149.
OnVisualizationStart ==
    /\ eLoad /= NullObject
    /\ eLoad.stage = "importing"
    /\ eChildren' = SetInnerHTML(eChildren, eLoad.progressDiv, "Visualizing model...")
    /\ eLoad' = [eLoad EXCEPT !.stage = "visualizing"]
    /\ eOp' = "onVisualizationStart"
    /\ UNCHANGED <<eParameters, eModel, eDisplay, eMainObject, eLoads, eLoaded>>
    /\ UNCHANGED otherThanViewer

OnModelFinished_CallbackFirst(importResult) ==
    /\ eChildren' = RemoveChild(eChildren, eLoad.progressDiv)
    /\ eDisplay' = "inherit"
    /\ eMainObject' = importResult.threeObject
    /\ eModel' = importResult.model
    /\ eLoaded' = IF eParameters.onModelLoaded THEN Append(eLoaded, eModel) ELSE eLoaded

\* Lines 150-169; eLoaded keeps what GetModel returns inside each call of
\* parameters.onModelLoaded.
OnModelFinished(importResult) ==
    /\ eChildren' = RemoveChild(eChildren, eLoad.progressDiv)
    /\ eDisplay' = "inherit"
    /\ eMainObject' = importResult.threeObject
    /\ eModel' = importResult.model
    /\ eLoaded' = IF eParameters.onModelLoaded THEN Append(eLoaded, eModel') ELSE eLoaded

\* The model loader ends a load with onModelFinished.
ModelFinished ==
    /\ eLoad /= NullObject
    /\ eLoad.stage = "visualizing"
    /\ \E importResult \in ImportResults : OnModelFinished(importResult)
    /\ eLoad' = NullObject
    /\ eOp' = "onModelFinished"
    /\ UNCHANGED <<eParameters, eLoads>>
    /\ UNCHANGED otherThanViewer

\* Lines 173-186.
OnLoadError(importError) ==
    /\ eChildren' = SetInnerHTML(eChildren, eLoad.progressDiv, ErrorMessage(importError))

\* The model loader ends a load with onLoadError.
LoadError ==
    /\ eLoad /= NullObject
    /\ eLoad.stage \in {"started", "importing"}
    /\ \E importError \in ImportErrors : OnLoadError(importError)
    /\ eLoad' = NullObject
    /\ eOp' = "onLoadError"
    /\ UNCHANGED <<eParameters, eModel, eDisplay, eMainObject, eLoads, eLoaded>>
    /\ UNCHANGED otherThanViewer

NextViewer ==
    \/ LoadModelFromInputFiles
    \/ OnLoadStart
    \/ OnImportStart
    \/ OnVisualizationStart
    \/ ModelFinished
    \/ LoadError

SpecViewer == InitViewer /\ [][NextViewer]_vars


(***************************************************************************)
(* Viewer.SetMeshesHighlight (unnamed/part_000).  A mesh of the main model *)
(* is its material array and userData.threeMaterials, an array that may    *)
(* be null; original keeps the material array the mesh was made with.      *)
(***************************************************************************)
\* ShadingModel.CreateHighlightMaterial (lines 332-350): a new material of
\* the color.
CreateHighlightMaterial(highlightColor) == [color |-> highlightColor]

\* Lines 659-666.
CreateHighlightMaterials(originalMaterials, highlightMaterial) ==
    [i \in 1..Len(originalMaterials) |-> highlightMaterial]

SetMeshHighlight_SaveAgain(mesh, highlightMaterial, highlighted) ==
    IF highlighted
    THEN [mesh EXCEPT !.userData.threeMaterials = Present(mesh.material),
                      !.material = CreateHighlightMaterials(mesh.material, highlightMaterial)]
    ELSE IF mesh.userData.threeMaterials.present
         THEN [mesh EXCEPT !.material = mesh.userData.threeMaterials.items,
                           !.userData.threeMaterials = Absent]
         ELSE mesh

\* Lines 670-681: the enumerator of one mesh.
SetMeshHighlight(mesh, highlightMaterial, highlighted) ==
    IF highlighted
    THEN IF ~mesh.userData.threeMaterials.present
         THEN [mesh EXCEPT !.userData.threeMaterials = Present(mesh.material),
                           !.material = CreateHighlightMaterials(mesh.material, highlightMaterial)]
         ELSE mesh
    ELSE IF mesh.userData.threeMaterials.present
         THEN [mesh EXCEPT !.material = mesh.userData.threeMaterials.items,
                           !.userData.threeMaterials = Absent]
         ELSE mesh

\* The material arrays the meshes are made with.
MaterialArrays ==
    {<<[color |-> "steel"]>>, <<[color |-> "steel"], [color |-> "glass"]>>,
     <<[color |-> "glass"], [color |-> "steel"], [color |-> "glass"]>>}

ViewMesh(material) ==
    [original |-> material, material |-> material, userData |-> [threeMaterials |-> Absent]]

HighlightColors == {"red", "blue"}

InitHighlight ==
    /\ hMeshes \in UNION {[1..count -> {ViewMesh(material) : material \in MaterialArrays}] :
                            count \in 1..MaxViewMeshes}
    /\ hCall = NullObject
    /\ EmbeddedViewer([onModelLoaded |-> FALSE])
    /\ worker = 0
    /\ document = NullObject
    /\ workers = <<>>
    /\ model = EmptyModel
    /\ error = Null
    /\ onFinishCalls = 0
    /\ onFinishError = Null
    /\ importCalls = 0
    /\ thrown = "none"
    /\ op = "constructor"
    /\ dDocument = FreeCadDocument(<<>>)
    /\ dStage = "Idle"
    /\ dObject = Null
    /\ dElement = NoElement
    /\ dRead = NoneRead
    /\ dList = <<>>
    /\ dDocVisible = {}
    /\ fFiles = <<>>
    /\ fRun = NullObject
    /\ fResult = FALSE
    /\ fOp = "constructor"
    /\ bContent = NullObject
    /\ bStage = "constructor"
    /\ bNext = 0
    /\ bModel = NullObject
    /\ bMaterials = <<>>
    /\ bMeshIdToMesh = <<>>
    /\ bError = Null
    /\ bFinish = 0
    /\ bExported = NullObject
    /\ bFirst = NullObject

\* Lines 657-685; isHighlighted is the set of the meshes it selects.
SetMeshesHighlight ==
    \E highlightColor \in HighlightColors : \E isHighlighted \in SUBSET (1..Len(hMeshes)) :
        LET highlightMaterial == CreateHighlightMaterial(highlightColor)
        IN  /\ hMeshes' = [m \in 1..Len(hMeshes) |->
                              SetMeshHighlight(hMeshes[m], highlightMaterial,
                                               m \in isHighlighted)]
            /\ hCall' = [highlightColor |-> highlightColor, isHighlighted |-> isHighlighted]
            /\ UNCHANGED otherThanHighlight

NextHighlight == SetMeshesHighlight

SpecHighlight == InitHighlight /\ [][NextHighlight]_vars

Init ==
    /\ worker = 0
    /\ document = NullObject
    /\ workers = <<>>
    /\ model = EmptyModel
    /\ error = Null
    /\ onFinishCalls = 0
    /\ onFinishError = Null
    /\ importCalls = 0
    /\ thrown = "none"
    /\ op = "constructor"
    /\ dDocument = FreeCadDocument(<<>>)
    /\ dStage = "Idle"
    /\ dObject = Null
    /\ dElement = NoElement
    /\ dRead = NoneRead
    /\ dList = <<>>
    /\ dDocVisible = {}
    /\ fFiles = <<>>
    /\ fRun = NullObject
    /\ fResult = FALSE
    /\ fOp = "constructor"
    /\ bContent = NullObject
    /\ bStage = "constructor"
    /\ bNext = 0
    /\ bModel = NullObject
    /\ bMaterials = <<>>
    /\ bMeshIdToMesh = <<>>
    /\ bError = Null
    /\ bFinish = 0
    /\ bExported = NullObject
    /\ bFirst = NullObject
    /\ EmbeddedViewer([onModelLoaded |-> FALSE])
    /\ NoMainModel

Next ==
    \/ ClearContent
    \/ ResetContent
    \/ \E fileContent \in Archives : ImportContent(fileContent)
    \/ OnWorkerMessage
    \/ OnWorkerError

Spec == Init /\ [][Next]_vars

SpecDoc == InitDoc /\ [][NextDoc]_vars

SpecFiles == InitFiles /\ [][NextFiles]_vars

SpecBim == InitBim /\ [][NextBim]_vars

\* The calls of ImporterFcstd in any order.
NextCalls ==
    \/ ClearContent
    \/ ResetContentCall
    \/ \E fileContent \in Archives : ImportContent(fileContent)
    \/ OnWorkerMessage
    \/ OnWorkerError

SpecCalls == Init /\ [][NextCalls]_vars

(***************************************************************************)
(* Properties of the conversion queue, checked under Spec.                 *)
(***************************************************************************)
Workers == 1..Len(workers)

ObjectCount(w) == Len(workers[w].objects)

\* A response was handled by the closure of worker w in this step.
Answered(w) == Len(workers'[w].outcomes) = Len(workers[w].outcomes) + 1

\* The child nodes of the root that were added since worker w was made and
\* before the next worker was made.
NodesOf(w) ==
    SubSeq(model.root, workers[w].nodesBefore + 1,
           IF w < Len(workers) THEN workers[w + 1].nodesBefore ELSE Len(model.root))

\* C1: a worker never has more than one request that was posted and not yet
\* answered; the first request is posted when the worker is made, and every
\* later one while the response to the one before is handled.
C1_OneRequestInFlight ==
    /\ [](\A w \in Workers :
            /\ workers[w].inflight <= 1
            /\ workers[w].posted = workers[w].convertedObjectCount + workers[w].inflight)
    /\ [][\A w \in 1..Len(workers') :
            IF w \in Workers
            THEN workers'[w].posted /= workers[w].posted =>
                    /\ workers'[w].posted = workers[w].posted + 1
                    /\ workers[w].inflight = 1
                    /\ Answered(w)
                    /\ op' \in {"message", "error"}
            ELSE workers'[w].posted <= 1]_vars

\* The third request of a list of three objects is in flight.
C1_Witness ==
    \E w \in Workers :
        /\ ObjectCount(w) = 3
        /\ workers[w].convertedObjectCount = 2
        /\ workers[w].inflight = 1
        /\ workers[w].posted = 3

Failures(w) == {k \in 1..Len(workers[w].outcomes) : workers[w].outcomes[k] \in {"failed", "error"}}

\* The sequence seq without its k-th entry.
Without(seq, k) == SubSeq(seq, 1, k - 1) \o SubSeq(seq, k + 1, Len(seq))

\* C2: when the conversion of N objects is complete, the request of object k
\* failed and every other one gave at least one mesh, the root has one group
\* node for every object but k, in the order of the objects, N requests were
\* posted, and the step that handles a failure leaves the model as it is; no
\* step changes a mesh or a node that is in the model.
C2_FailureSkipsObject ==
    /\ [](\A w \in Workers :
            (/\ workers[w].finished > 0
             /\ Cardinality(Failures(w)) = 1
             /\ \A j \in 1..Len(workers[w].outcomes) :
                    j \notin Failures(w) => workers[w].outcomes[j] = "converted")
            => LET k == CHOOSE k \in Failures(w) : TRUE
                   expected == Without(workers[w].objects, k)
               IN  /\ workers[w].posted = ObjectCount(w)
                   /\ Len(workers[w].outcomes) = ObjectCount(w)
                   /\ Len(NodesOf(w)) = ObjectCount(w) - 1
                   /\ \A i \in 1..Len(NodesOf(w)) :
                        /\ NodesOf(w)[i].type = "GroupNode"
                        /\ NodesOf(w)[i].name = expected[i].shapeName
                        /\ NodesOf(w)[i].meshIndices /= <<>>)
    /\ [][/\ (\E w \in Workers : Answered(w) /\ Len(workers'[w].outcomes) \in Failures(w)')
                => model' = model
          /\ SubSeq(model'.root, 1, Len(model.root)) = model.root
          /\ SubSeq(model'.meshes, 1, Len(model.meshes)) = model.meshes]_vars

\* Three objects, the second request ended in an error event, the others were
\* converted, and onFinish was called.
C2_Witness ==
    \E w \in Workers :
        /\ workers[w].finished = 1
        /\ workers[w].outcomes = <<"converted", "error", "converted">>
        /\ Len(NodesOf(w)) = 2

\* C3: for a list of N >= 1 objects onFinish is called at most once, exactly
\* when the N-th response has been handled and no request is in flight; a
\* response that is not the last one, failed or not, posts the next request.
C3_FinishOnce ==
    /\ [](\A w \in Workers :
            ObjectCount(w) >= 1 =>
                /\ workers[w].finished <= 1
                /\ workers[w].finished = 1 <=> workers[w].convertedObjectCount = ObjectCount(w)
                /\ workers[w].finished = 1 => workers[w].inflight = 0
                /\ Len(workers[w].outcomes) = workers[w].convertedObjectCount)
    /\ [](onFinishCalls <= importCalls)
    /\ [][\A w \in Workers :
            (Answered(w) /\ workers'[w].convertedObjectCount < ObjectCount(w))
            => /\ workers'[w].posted = workers[w].posted + 1
               /\ workers'[w].inflight = 1
               /\ workers'[w].finished = 0
               /\ onFinishCalls' = onFinishCalls]_vars

\* Three objects, all three requests failed, and onFinish was called once.
C3_Witness ==
    \E w \in Workers :
        /\ ObjectCount(w) = 3
        /\ workers[w].finished = 1
        /\ Failures(w) = {1, 2, 3}
        /\ workers[w].posted = 3

\* C4, as claimed: an ImportContent call on an archive that has Document.xml and
\* no convertible object calls onFinish once, raises and records no error,
\* posts no request and leaves the model as it is.
C4_EmptyImportFinishes ==
    [][(/\ op' = "ImportContent"
        /\ importCalls' = importCalls + 1
        /\ HasFile(document'.files, "Document.xml")
        /\ GetObjectListToConvert(document') = <<>>)
       => /\ onFinishCalls' = onFinishCalls + 1
          /\ thrown' = "none"
          /\ error' = error
          /\ model' = model
          /\ \A w \in 1..Len(workers') : w \notin Workers => workers'[w].posted = 0]_vars

Range(seq) == {seq[i] : i \in 1..Len(seq)}

Retained == DOMAIN dDocument.objectData

ListedNames == {dList[i].name : i \in 1..Len(dList)}

\* The file is in the archive and its extension is brp or brep.
IsGeometryFile(fileName) ==
    /\ fileName \in DOMAIN dDocument.files
    /\ GetFileExtension(fileName) \in {"brp", "brep"}

HasBlob(object) == object.fileName /= Null /\ object.fileContent /= Null

ShapeFileOf(propertyElement) ==
    IF propertyElement.children = <<>> THEN Null ELSE propertyElement.children[1].value

\* C7: once Init is over, a retained object is in the list of
\* GetObjectListToConvert if and only if it has a geometry blob, is visible and
\* has no inbound link.  An object has a blob only from a file of the archive
\* with extension brp or brep, and has one as soon as a Shape property names
\* such a file.
C7_Eligibility ==
    /\ \A n \in Retained :
        LET object == dDocument.objectData[n]
        IN  /\ (object.fileName /= Null) <=> (object.fileContent /= Null)
            /\ HasBlob(object) =>
                /\ IsGeometryFile(object.fileName)
                /\ object.fileContent = dDocument.files[object.fileName]
    /\ (dStage \in {"Properties", "Links"} /\ dElement.kind = "Property"
            /\ dElement.element.name = "Shape"
            /\ IsGeometryFile(ShapeFileOf(dElement.element)))
        => dDocument.objectData[dObject].fileName = ShapeFileOf(dElement.element)
    /\ dStage = "Done" =>
        \A n \in Retained :
            LET object == dDocument.objectData[n]
            IN  (\E i \in 1..Len(dList) : dList[i] = object)
                    <=> (HasBlob(object) /\ object.isVisible /\ object.inLinkCount = 0)

\* Both names are retained, visible and carry geometry; A is listed, B is not
\* because it has an inbound link.
C7_Witness ==
    /\ dStage = "Done"
    /\ Retained = {"A", "B"}
    /\ \A n \in Retained : HasBlob(dDocument.objectData[n]) /\ dDocument.objectData[n].isVisible
    /\ dDocument.objectData["B"].inLinkCount > 0
    /\ ListedNames = {"A"}

InLinkCount(doc, n) == doc.objectData[n].inLinkCount

\* C8: the inbound-link count of a retained object starts at zero and grows by
\* one with every Link element that is read and whose value is its name, and
\* with nothing else; Link elements are read only below retained objects, an
\* ObjectData object that is not retained is skipped with its links; when
\* something links to B, nothing links to A and both are visible with
\* geometry, only A is listed.
C8_InLinkCount ==
    /\ [](dStage = "Objects" => \A n \in Retained : InLinkCount(dDocument, n) = 0)
    /\ [][IF dRead'.links = dRead.links + 1
          THEN /\ dObject \in Retained
               /\ dObject' = dObject
               /\ \A n \in Retained :
                    /\ InLinkCount(dDocument', n) =
                            InLinkCount(dDocument, n) + (IF dElement'.value = n THEN 1 ELSE 0)
                    /\ [dDocument'.objectData[n] EXCEPT !.inLinkCount = 0] =
                            [dDocument.objectData[n] EXCEPT !.inLinkCount = 0]
               /\ dElement'.value \notin Retained => dDocument' = dDocument
          ELSE \A n \in Retained : InLinkCount(dDocument', n) = InLinkCount(dDocument, n)]_vars
    /\ [][dRead'.data = dRead.data + 1 =>
            IF HasObject(dDocument, dElement'.name)
            THEN dObject' = dElement'.name /\ dStage' = "Properties"
            ELSE dDocument' = dDocument /\ dObject' = dObject /\ dStage' = "ObjectData"]_vars
    /\ []((/\ dStage = "Done"
           /\ Retained = {"A", "B"}
           /\ \A n \in Retained :
                HasBlob(dDocument.objectData[n]) /\ dDocument.objectData[n].isVisible
           /\ InLinkCount(dDocument, "B") > 0
           /\ InLinkCount(dDocument, "A") = 0)
          => ListedNames = {"A"})

\* B links to itself and A links to B: the Link element of A has just been
\* read and the counter of B is 2.
C8_Witness ==
    /\ dStage = "Links"
    /\ Retained = {"A", "B"}
    /\ dObject = "A"
    /\ dElement = [kind |-> "Link", value |-> "B"]
    /\ InLinkCount(dDocument, "B") = 2
    /\ InLinkCount(dDocument, "A") = 0

\* names is a subsequence of all: its entries occur in all in the same order.
IsSubsequence(names, all) ==
    \E f \in [1..Len(names) -> 1..Len(all)] :
        /\ \A i \in 1..Len(names) : all[f[i]] = names[i]
        /\ \A i, j \in 1..Len(names) : i < j => f[i] < f[j]

\* C9: objectNames holds the retained names in the order in which their Object
\* elements are read from the Objects sections, no later element changes it,
\* and the list of GetObjectListToConvert follows that order.
C9_DeclarationOrder ==
    /\ [](dStage = "Done" =>
            /\ IsSubsequence([i \in 1..Len(dList) |-> dList[i].name], dDocument.objectNames)
            /\ \A i \in 1..Len(dList) : dList[i] = dDocument.objectData[dList[i].name])
    /\ [][IF dRead'.objects = dRead.objects + 1 /\ HasObject(dDocument', dElement'.element.name)
             /\ dDocument' /= dDocument
          THEN dDocument'.objectNames = Append(dDocument.objectNames, dElement'.element.name)
          ELSE dDocument'.objectNames = dDocument.objectNames]_vars

\* A was declared before B, the record of B was read before the record of A,
\* and the list is A, B.
C9_Witness ==
    /\ dStage = "Done"
    /\ dDocument.objectNames = <<"A", "B">>
    /\ dObject = "A"
    /\ Len(dList) = 2
    /\ dList[1].name = "A"
    /\ dList[2].name = "B"

\* The type starts with Part:: or PartDesign:: and does not contain Part2D.
TypeMatches(type) ==
    /\ \E k \in 1..Len(type) : SubSeq(type, 1, k) \in {StrPart, StrPartDesign}
    /\ ~\E i \in 1..Len(type) : \E j \in i..Len(type) : SubSeq(type, i, j) = StrPart2D

\* C10: an Object element adds an object exactly when its type starts with
\* Part:: or PartDesign:: and does not contain Part2D; a name that is not
\* retained has no object, is not listed, and its ObjectData and ViewProvider
\* elements change nothing.
C10_RetainedTypes ==
    /\ [](/\ Retained = Range(dDocument.objectNames)
          /\ \A n \in Retained :
                /\ dDocument.objectData[n].name = n
                /\ TypeMatches(dDocument.objectData[n].type)
          /\ ListedNames \subseteq Retained)
    /\ [][dRead'.objects = dRead.objects + 1 =>
            LET element == dElement'.element
            IN  IF TypeMatches(element.type)
                THEN /\ dDocument'.objectNames = Append(dDocument.objectNames, element.name)
                     /\ dDocument'.objectData[element.name] =
                            FreeCadObject(element.name, element.type)
                ELSE dDocument' = dDocument]_vars
    /\ [][(dRead'.data = dRead.data + 1 /\ dElement'.name \notin Retained)
            => (dDocument' = dDocument /\ dStage' = "ObjectData")]_vars
    /\ [][(dRead'.views = dRead.views + 1 /\ dElement'.element.name \notin Retained)
            => dDocument' = dDocument]_vars
    /\ [][(dRead'.links = dRead.links + 1 /\ dElement'.value \notin Retained)
            => dDocument' = dDocument]_vars

\* B is retained with a PartDesign type; the Object element of A, whose type
\* starts with PartDesign:: and contains Part2D, has just been read and A is
\* not retained.
C10_Witness ==
    /\ dStage = "Objects"
    /\ dRead.objects = 2
    /\ dElement = [kind |-> "Object", element |-> ObjectElement("A", TypeDesign2D)]
    /\ dDocument.objectNames = <<"B">>
    /\ dDocument.objectData["B"].type = TypePad
    /\ ~HasObject(dDocument, "A")

\* The values of the Visibility properties among propertyElements, in order.
RECURSIVE VisibilityValues(_)
VisibilityValues(propertyElements) ==
    IF propertyElements = <<>> THEN <<>>
    ELSE (IF Head(propertyElements).name = "Visibility"
          THEN <<ShapeFileOf(Head(propertyElements))>> ELSE <<>>)
         \o VisibilityValues(Tail(propertyElements))

IsVisible(doc, n) == doc.objectData[n].isVisible

\* C11: a ViewProvider element sets the visibility of the retained object it
\* names to the value of its last Visibility property and leaves it alone when
\* it has none; no other object changes; without GuiDocument.xml, and for a
\* name no ViewProvider has changed, the visibility is the one Document.xml
\* left; a retained object is invisible until a Visibility or Visible
\* property of Document.xml or a Visibility property of GuiDocument.xml says
\* otherwise.
C11_VisibilityOverride ==
    /\ [](dStage = "Objects" => \A n \in Retained : ~IsVisible(dDocument, n))
    /\ [][dRead'.views = dRead.views + 1 =>
            LET element == dElement'.element
                values == VisibilityValues(element.props)
            IN  \A n \in Retained :
                    IsVisible(dDocument', n) =
                        IF n = element.name /\ values /= <<>>
                        THEN values[Len(values)] = "true"
                        ELSE IsVisible(dDocument, n)]_vars
    /\ [][\A n \in Retained :
            IsVisible(dDocument', n) /= IsVisible(dDocument, n) =>
                \/ /\ dRead'.props = dRead.props + 1
                   /\ dObject = n
                   /\ dElement'.element.name \in {"Visibility", "Visible"}
                \/ /\ dRead'.views = dRead.views + 1
                   /\ dElement'.element.name = n
                   /\ VisibilityValues(dElement'.element.props) /= <<>>]_vars
    /\ [](dStage = "Done" /\ ~HasFile(dDocument.files, "GuiDocument.xml") =>
            \A n \in Retained : IsVisible(dDocument, n) <=> n \in dDocVisible)
    /\ [](dStage = "ViewProviders" /\ dRead.views = 0 =>
            \A n \in Retained : IsVisible(dDocument, n) <=> n \in dDocVisible)

\* Document.xml made A and B visible; the ViewProvider element of B that has
\* just been read hides B and A is as Document.xml left it.
C11_Witness ==
    /\ dStage = "ViewProviders"
    /\ Retained = {"A", "B"}
    /\ dDocVisible = {"A", "B"}
    /\ dElement = [kind |-> "ViewProvider",
                   element |-> [name |-> "B",
                                props |-> <<Property("Visibility", <<Child("Bool", "value", "false")>>)>>]]
    /\ IsVisible(dDocument, "A")
    /\ ~IsVisible(dDocument, "B")

(***************************************************************************)
(* Properties of ImportContent, checked under Spec.                        *)
(***************************************************************************)
ImportContentCalled == op' = "ImportContent" /\ importCalls' = importCalls + 1

\* C12: an ImportContent call on an archive without Document.xml records the
\* error 'No Document.xml found.', calls onFinish once with the error already
\* recorded, raises nothing, makes no worker, posts nothing and leaves the
\* model as it is; with Document.xml the call records no error, with or
\* without GuiDocument.xml, and goes on to the conversion: it makes the worker
\* and, when there is an object to convert, posts the first request.  Nothing
\* else records an error.
C12_NoDocumentXml ==
    /\ [][ImportContentCalled =>
            IF ~HasFile(document'.files, "Document.xml")
            THEN /\ error' = "No Document.xml found."
                 /\ onFinishCalls' = onFinishCalls + 1
                 /\ onFinishError' = "No Document.xml found."
                 /\ thrown' = "none"
                 /\ worker' = worker
                 /\ workers' = workers
                 /\ model' = model
            ELSE /\ error' = error
                 /\ onFinishCalls' = onFinishCalls
                 /\ Len(workers') = Len(workers) + 1
                 /\ worker' = Len(workers')
                 /\ LET objects == GetObjectListToConvert(document')
                    IN  /\ workers'[worker'].objects = objects
                        /\ objects /= <<>> =>
                            (workers'[worker'].posted = 1 /\ thrown' = "none")]_vars
    /\ [][error' /= error => ImportContentCalled]_vars

\* ImportContent was called on the archive without Document.xml.
C12_Witness ==
    /\ op = "ImportContent"
    /\ ~HasFile(document.files, "Document.xml")
    /\ error = "No Document.xml found."
    /\ onFinishCalls = 1
    /\ onFinishError = "No Document.xml found."
    /\ workers = <<>>
    /\ model = EmptyModel

(***************************************************************************)
(* Properties of the file list, checked under SpecFiles.                   *)
(***************************************************************************)
Tasks == IF fRun = NullObject THEN {} ELSE 1..fRun.count

ContentSet(i) == fFiles[i].content /= Null

\* The file has its content, or its fetch failed or its source has no loader
\* and its content is left unset.
Terminal(i) ==
    /\ fRun.tasks[i].state = "done"
    /\ \/ ContentSet(i)
       \/ fRun.tasks[i].outcome \in {"rejected", "no loader"} /\ ~ContentSet(i)

AllDone == \A i \in Tasks : fRun.tasks[i].state = "done"

\* C13: the onReady callback of a GetContent call is called at most once, only
\* when every file is terminal, and it has been called once every task is
\* over, whatever the order in which the fetches end and however many fail;
\* for an empty list it is called at once.
C13_AggregateOnReady ==
    fRun /= NullObject =>
        /\ fRun.onReady <= 1
        /\ fRun.onReady = 1 => \A i \in Tasks : Terminal(i)
        /\ AllDone => fRun.onReady = 1
        /\ fRun.completed <= fRun.started
        /\ fRun.started - fRun.completed <= fRun.poolSize

\* Two files were fetched at the same time, both fetches failed and onReady
\* was called.
C13_Witness ==
    /\ fRun /= NullObject
    /\ fRun.count = 2
    /\ fRun.poolSize = 2
    /\ fRun.onReady = 1
    /\ \A i \in Tasks : fRun.tasks[i].outcome = "rejected" /\ ~ContentSet(i)

\* The callback of the loader promise of file i ran in this step.
LoaderStep(i, from, to) ==
    /\ fRun /= NullObject
    /\ fRun' /= NullObject
    /\ i \in Tasks
    /\ fRun.tasks[i].state = from
    /\ fRun'.tasks[i].state = to

\* C14: a fetch that fails leaves the content of its file null and changes no
\* other file and no other task; the per-file onReady is called once for
\* every file, with the finally callback and not before, so after the content
\* of a file whose fetch succeeded was set; while a file is not done a step
\* of the run is possible, whatever became of the other files.
C14_FailedFetch ==
    /\ [](\A i \in Tasks :
            /\ fRun.tasks[i].onReady = (IF fRun.tasks[i].state = "done" THEN 1 ELSE 0)
            /\ fRun.tasks[i].outcome = "rejected" => ~ContentSet(i)
            /\ fRun.tasks[i].outcome = "resolved" => ContentSet(i))
    /\ [][\A i \in Tasks :
            (LoaderStep(i, "loading", "settled") /\ fRun'.tasks[i].outcome = "rejected") =>
                /\ fFiles' = fFiles
                /\ fRun' = [fRun EXCEPT !.tasks[i].state = "settled",
                                        !.tasks[i].outcome = "rejected"]]_vars
    /\ [][\A i \in Tasks :
            LoaderStep(i, "settled", "done") =>
                /\ fFiles' = fFiles
                /\ fRun'.tasks[i].onReady = fRun.tasks[i].onReady + 1
                /\ fRun'.completed = fRun.completed + 1
                /\ \A j \in Tasks \ {i} : fRun'.tasks[j] = fRun.tasks[j]]_vars
    /\ [](Running => ENABLED (StartTask \/ LoaderResolved \/ LoaderRejected \/ LoaderSettled))

\* The fetch of the first file failed and the fetch of the second file
\* succeeded afterwards: both were signalled once and only the second has
\* content.
C14_Witness ==
    /\ fRun /= NullObject
    /\ fRun.count = 2
    /\ fRun.poolSize = 1
    /\ fRun.tasks[1].outcome = "rejected"
    /\ fRun.tasks[1].onReady = 1
    /\ ~ContentSet(1)
    /\ fRun.tasks[2].outcome = "resolved"
    /\ fRun.tasks[2].onReady = 1
    /\ ContentSet(2)
    /\ fRun.onReady = 1

\* C15, as claimed: the list never holds two files whose names are equal when
\* case is ignored, and an AddFile call with a file whose name is in the list
\* leaves the list as it is.
C15_NoDuplicateNames ==
    /\ [](\A i, j \in 1..Len(fFiles) :
            i /= j => ToLowerCase(fFiles[i].name) /= ToLowerCase(fFiles[j].name))
    /\ [][\A file \in ImporterFiles :
            (/\ fOp' = "AddFile"
             /\ fFiles' = AddFile(fFiles, file)
             /\ \E i \in 1..Len(fFiles) :
                    ToLowerCase(fFiles[i].name) = ToLowerCase(file.name))
            => fFiles' = fFiles]_vars

AllOfSource(sources) == \A i \in 1..Len(fFiles) : fFiles[i].source \in sources

\* C16, as claimed: IsOnlyUrlSource returns true exactly when every file of
\* the list has the source Url, the empty list included.
C16_OnlyUrlSource ==
    fOp = "IsOnlyUrlSource" => (fResult <=> AllOfSource({FileSource.Url}))

\* C16, amended: IsOnlyUrlSource returns true exactly when the list is not
\* empty and every file of it has the source Url or Decompressed.
C16_OnlyUrlOrDecompressed ==
    fOp = "IsOnlyUrlSource" =>
        (fResult <=> (fFiles /= <<>> /\ AllOfSource({FileSource.Url, FileSource.Decompressed})))

\* IsOnlyUrlSource returned true for a list of a Url file and a decompressed
\* file.
C16_Witness ==
    /\ fOp = "IsOnlyUrlSource"
    /\ fResult
    /\ Len(fFiles) = 2
    /\ fFiles[1].source = FileSource.Url
    /\ fFiles[2].source = FileSource.Decompressed

(***************************************************************************)
(* Properties of ImporterBim.                                              *)
(***************************************************************************)
\* The elements that ImportElement has added a mesh for: element i of the
\* document made mesh i of the model.
Imported == 1..Len(bModel.meshes)

ElementOf(i) == bContent.elements.items[i]

BimMeshOf(i) == MeshIdToMeshGet(bMeshIdToMesh, ElementOf(i).mesh_id)

MeshOf(i) == bModel.meshes[i]

\* Every triangle carries vertex color indices and no material.
VertexColorMode(mesh) ==
    /\ mesh /= NullObject
    /\ \A t \in 1..Len(mesh.triangles) :
          mesh.triangles[t].mat = NullIndex /\ mesh.triangles[t].c0 /= NullIndex

\* Every triangle carries a material and no vertex color index.
MaterialMode(mesh) ==
    /\ mesh /= NullObject
    /\ \A t \in 1..Len(mesh.triangles) :
          /\ mesh.triangles[t].mat /= NullIndex
          /\ mesh.triangles[t].c0 = NullIndex
          /\ mesh.triangles[t].c1 = NullIndex
          /\ mesh.triangles[t].c2 = NullIndex

\* C17 as the claim states it: the mesh of a BIM mesh with a colors array is
\* in vertex color mode if and only if colors.length / 4 >= indices.length / 3,
\* and in material mode otherwise.
C17_ThresholdPerTriangle ==
    \A i \in Imported :
        BimMeshOf(i).colors.present =>
            IF 3 * Len(BimMeshOf(i).colors.items) >= 4 * Len(BimMeshOf(i).indices)
            THEN VertexColorMode(MeshOf(i))
            ELSE MaterialMode(MeshOf(i))

\* C17, amended: the mesh of a BIM mesh with a colors array is in vertex
\* color mode if and only if colors.length / 4 >= indices.length, that is if
\* there are at least as many RGBA entries as triangle corners, and in
\* material mode otherwise.
C17_ThresholdPerCorner ==
    \A i \in Imported :
        BimMeshOf(i).colors.present =>
            IF Len(BimMeshOf(i).colors.items) >= 4 * Len(BimMeshOf(i).indices)
            THEN VertexColorMode(MeshOf(i)) /\ ~MaterialMode(MeshOf(i))
            ELSE MaterialMode(MeshOf(i)) /\ ~VertexColorMode(MeshOf(i))

\* A mesh with exactly one RGBA entry per corner was made in vertex color
\* mode, and the import went on to onFinish.
C17_Witness ==
    /\ bStage = "returned"
    /\ \E i \in Imported :
          /\ BimMeshOf(i).colors.present
          /\ Len(BimMeshOf(i).indices) >= 3
          /\ Len(BimMeshOf(i).colors.items) = 4 * Len(BimMeshOf(i).indices)
          /\ VertexColorMode(MeshOf(i))

\* The RGBA entry of position entry, counted from 0, of a colors array.
ColorEntry(items, entry) ==
    <<At(items, entry * 4 + 0), At(items, entry * 4 + 1),
      At(items, entry * 4 + 2), At(items, entry * 4 + 3)>>

TriangleCount(bimMesh) == Len(bimMesh.indices) \div 3

\* A mesh with one RGBA entry per triangle, for an element without a color.
OneColorPerTriangle(i) ==
    /\ ~ElementOf(i).color.present
    /\ BimMeshOf(i).colors.present
    /\ TriangleCount(BimMeshOf(i)) >= 1
    /\ Len(BimMeshOf(i).colors.items) = 4 * TriangleCount(BimMeshOf(i))

\* C18: a BIM mesh with one RGBA entry per triangle, for an element without
\* a color, is decoded in material mode: the element gets one mesh, triangle
\* t of it carries the material of color entry t and no vertex colors, and
\* there are at most as many materials in use as distinct color entries.
C18_OneColorPerTriangle ==
    \A i \in Imported :
        OneColorPerTriangle(i) =>
            LET items == BimMeshOf(i).colors.items
                count == TriangleCount(BimMeshOf(i))
                mesh == MeshOf(i)
            IN  /\ MaterialMode(mesh)
                /\ ~VertexColorMode(mesh)
                /\ Len(mesh.triangles) = count
                /\ \A t \in 1..count :
                      /\ mesh.triangles[t].mat \in 0..(Len(bMaterials) - 1)
                      /\ bMaterials[mesh.triangles[t].mat + 1] = ColorEntry(items, t - 1)
                /\ Cardinality({mesh.triangles[t].mat : t \in 1..count})
                      <= Cardinality({ColorEntry(items, t - 1) : t \in 1..count})
                /\ bModel.root[i] = ElementNode(i - 1)
                /\ Len(bModel.root) = Len(bModel.meshes)
                /\ (bStage = "returned" => Len(bModel.meshes) = Len(bContent.elements.items))

\* Two triangles with the two entries Red and Blue were given two materials.
C18_Witness ==
    /\ bStage = "returned"
    /\ \E i \in Imported :
          /\ OneColorPerTriangle(i)
          /\ TriangleCount(BimMeshOf(i)) = 2
          /\ BimMeshOf(i).colors.items = Red \o Blue
          /\ MeshOf(i).triangles[1].mat /= MeshOf(i).triangles[2].mat

\* C19: in vertex color mode every triangle carries three vertex color
\* indices, and the index of corner k is the one the vertex colors of the
\* mesh hold for RGBA entry 3 * t + k of the colors array.
C19_VertexColorsPerCorner ==
    \A i \in Imported :
        (BimMeshOf(i).colors.present /\ IsVertexColorMode(BimMeshOf(i))) =>
            LET items == BimMeshOf(i).colors.items
                mesh == MeshOf(i)
                Resolved(index, entry) ==
                    /\ index \in 0..(Len(mesh.vertexColors) - 1)
                    /\ mesh.vertexColors[index + 1] = ColorEntry(items, entry)
            IN  \A t \in 1..Len(mesh.triangles) :
                    /\ Resolved(mesh.triangles[t].c0, 3 * (t - 1) + 0)
                    /\ Resolved(mesh.triangles[t].c1, 3 * (t - 1) + 1)
                    /\ Resolved(mesh.triangles[t].c2, 3 * (t - 1) + 2)

\* The default material of line 105 and line 153.
DefaultGray == <<200, 200, 200, 255>>

\* C20: an element without face_colors whose mesh has no colors array still
\* gets its mesh, and every triangle of it carries the material of the
\* default gray.
C20_DefaultGray ==
    \A i \in Imported :
        (~ElementOf(i).face_colors.present /\ ~BimMeshOf(i).colors.present) =>
            /\ MeshOf(i) /= NullObject
            /\ Len(MeshOf(i).triangles) = TriangleCount(BimMeshOf(i))
            /\ \A t \in 1..Len(MeshOf(i).triangles) :
                  /\ MeshOf(i).triangles[t].mat \in 0..(Len(bMaterials) - 1)
                  /\ bMaterials[MeshOf(i).triangles[t].mat + 1] = DefaultGray

\* The element that the loop of ImportContent is about to import names a
\* mesh that the document does not have.
NextElementHasNoMesh ==
    /\ bStage = "elements"
    /\ bNext <= Len(bContent.elements.items)
    /\ ~MeshIdToMeshHas(bMeshIdToMesh, bContent.elements.items[bNext].mesh_id)

\* C21: an element whose mesh_id matches no mesh is skipped: its turn of the
\* loop adds no mesh and no node and the loop goes on to the next element
\* (and from the last one to onFinish).
C21_UnknownMeshSkipped ==
    [][NextElementHasNoMesh =>
          /\ bModel' = bModel
          /\ bStage' = "elements"
          /\ bNext' = bNext + 1]_vars

\* The file content is not a BIM document: it is no JSON, or the meshes or
\* the elements array is missing.
NotADocument ==
    ~bContent.parses \/ ~bContent.meshes.present \/ ~bContent.elements.present

\* C22: ImportContent raises no exception and calls onFinish once, whatever
\* the file content; when the content is not a document, an error message
\* was recorded before onFinish.
C22_FinishesWithoutThrowing ==
    /\ bStage /= "TypeError"
    /\ bFinish <= 1
    /\ bStage = "returned" => bFinish = 1
    /\ (bFinish = 1 /\ NotADocument) => bError /= Null

\* Every triangle carries three vertex color indices and no material.
ThreeVertexColors(mesh) ==
    \A t \in 1..Len(mesh.triangles) :
        /\ mesh.triangles[t].mat = NullIndex
        /\ mesh.triangles[t].c0 >= 0
        /\ mesh.triangles[t].c1 >= 0
        /\ mesh.triangles[t].c2 >= 0

\* C23: every mesh that decode made is in one color mode: all its triangles
\* carry a material and no vertex colors, or all carry three vertex color
\* indices and no material.
C23_OneColorMode ==
    \A i \in Imported :
        MeshOf(i) /= NullObject =>
            MaterialMode(MeshOf(i)) \/ ThreeVertexColors(MeshOf(i))

\* The properties the claim lists for an element: Guid, Type, then the
\* entries of info whose value is a string, in the order of info.
ListedProperties(bimElement) ==
    LET strings == SelectSeq(bimElement.info.items, LAMBDA entry : entry.string)
    IN  (IF bimElement.guid /= Null
         THEN <<[name |-> "Guid", value |-> bimElement.guid]>> ELSE <<>>)
        \o (IF bimElement.type /= Null
            THEN <<[name |-> "Type", value |-> bimElement.type]>> ELSE <<>>)
        \o [k \in 1..Len(strings) |->
               [name |-> strings[k].name, value |-> strings[k].value]]

HasInfoGroup(i) ==
    MeshOf(i).propertyGroups =
        <<[name |-> "Info", properties |-> ListedProperties(ElementOf(i))]>>

\* C24 as the claim states it: the mesh of every imported element has
\* exactly one property group, 'Info', with the listed properties.
C24_InfoGroupAlways ==
    \A i \in Imported : MeshOf(i) /= NullObject => HasInfoGroup(i)

\* C24, amended: the mesh of an imported element whose info map has an
\* entry has exactly one property group, 'Info', with the listed properties;
\* the mesh of an element without info map, or with an empty one, has none.
C24_InfoGroupWhenInfo ==
    \A i \in Imported :
        MeshOf(i) /= NullObject =>
            IF ElementOf(i).info.present /\ ElementOf(i).info.items /= <<>>
            THEN HasInfoGroup(i)
            ELSE MeshOf(i).propertyGroups = <<>>

\* An element with a guid, a type, a string entry and a number entry was
\* imported: its mesh has Guid, Type and the string entry.
C24_Witness ==
    /\ bStage = "returned"
    /\ \E i \in Imported :
          /\ ElementOf(i).info = Present(InfoItems)
          /\ ElementOf(i).guid /= Null
          /\ ElementOf(i).type /= Null
          /\ MeshOf(i) /= NullObject
          /\ Len(MeshOf(i).propertyGroups) = 1
          /\ Len(MeshOf(i).propertyGroups[1].properties) = 3

\* The loop of ImportContent has imported one more element.
ElementImported ==
    bStage = "elements" /\ bStage' = "elements" /\ bNext' = bNext + 1

\* C25: every imported element appends one mesh to the model and one mesh
\* node to the root, which names the index of that mesh only; when the
\* import of a document of E elements is over, the model has E meshes and
\* the root E children.
C25_OneMeshOneNode ==
    /\ [](/\ Len(bModel.root) = Len(bModel.meshes)
          /\ \A i \in 1..Len(bModel.root) :
                /\ bModel.root[i].type = "MeshNode"
                /\ bModel.root[i].meshIndices = <<i - 1>>
          /\ (bStage = "returned" /\ ~NotADocument) =>
                Len(bModel.meshes) = Len(bContent.elements.items))
    /\ [][ElementImported =>
             /\ Len(bModel'.meshes) = Len(bModel.meshes) + 1
             /\ Len(bModel'.root) = Len(bModel.root) + 1
             /\ SubSeq(bModel'.meshes, 1, Len(bModel.meshes)) = bModel.meshes
             /\ SubSeq(bModel'.root, 1, Len(bModel.root)) = bModel.root
             /\ bModel'.meshes[Len(bModel'.meshes)] /= NullObject]_vars

\* Two elements that name the same mesh were imported into two meshes and
\* two nodes.
C25_Witness ==
    /\ bStage = "returned"
    /\ Len(bContent.elements.items) = 2
    /\ bContent.elements.items[1].mesh_id = bContent.elements.items[2].mesh_id
    /\ Len(bModel.meshes) = 2
    /\ Len(bModel.root) = 2

\* The color of triangle t of a mesh: the color of its material, or the
\* vertex colors of its three corners.
TriangleColor(mesh, materials, t) ==
    LET triangle == mesh.triangles[t]
    IN  IF HasMaterial(materials, triangle.mat)
        THEN [material |-> materials[triangle.mat + 1]]
        ELSE [vertexColors |->
                 <<At(mesh.vertexColors, triangle.c0), At(mesh.vertexColors, triangle.c1),
                   At(mesh.vertexColors, triangle.c2)>>]

\* C26: a decoded model can be encoded, the encoded file can be decoded,
\* and the second decode gives for every mesh the vertex count, the
\* triangle count and the color of every triangle of the first decode.
C26_RoundTrip ==
    /\ bExported /= NullObject => bExported.thrown = Null
    /\ bFirst /= NullObject => bStage /= "TypeError"
    /\ (bFirst /= NullObject /\ bStage = "returned") =>
          /\ Len(bModel.meshes) = Len(bFirst.model.meshes)
          /\ \A i \in 1..Len(bFirst.model.meshes) :
                LET first == bFirst.model.meshes[i]
                    second == bModel.meshes[i]
                IN  /\ Len(second.vertices) = Len(first.vertices)
                    /\ Len(second.triangles) = Len(first.triangles)
                    /\ \A t \in 1..Len(first.triangles) :
                          TriangleColor(second, bMaterials, t)
                             = TriangleColor(first, bFirst.materials, t)

\* The element has face_colors and its mesh has a colors array.
BothColorSources(bimElement) ==
    /\ bimElement.face_colors.present
    /\ MeshIdToMeshHas(bMeshIdToMesh, bimElement.mesh_id)
    /\ MeshIdToMeshGet(bMeshIdToMesh, bimElement.mesh_id).colors.present

\* Corner k of triangle t carries the vertex color of RGBA entry.
CornerResolved(mesh, index, entry) ==
    /\ index >= 0
    /\ index < Len(mesh.vertexColors)
    /\ mesh.vertexColors[index + 1] = entry

\* C27 as the claim states it: with face_colors and a colors array, every
\* triangle has its color from the colors array of the mesh: the material
\* of entry t in material mode, the vertex colors of its three entries in
\* vertex color mode.
C27_ColorsArrayOnly ==
    \A i \in Imported :
        (BothColorSources(ElementOf(i)) /\ MeshOf(i) /= NullObject) =>
            LET items == BimMeshOf(i).colors.items
                mesh == MeshOf(i)
            IN  \A t \in 1..Len(mesh.triangles) :
                    IF IsVertexColorMode(BimMeshOf(i))
                    THEN /\ CornerResolved(mesh, mesh.triangles[t].c0, ColorEntry(items, 3 * (t - 1) + 0))
                         /\ CornerResolved(mesh, mesh.triangles[t].c1, ColorEntry(items, 3 * (t - 1) + 1))
                         /\ CornerResolved(mesh, mesh.triangles[t].c2, ColorEntry(items, 3 * (t - 1) + 2))
                    ELSE /\ HasMaterial(bMaterials, mesh.triangles[t].mat)
                         /\ bMaterials[mesh.triangles[t].mat + 1] = ColorEntry(items, t - 1)

\* C27, amended: with face_colors and a colors array, the turn of the loop
\* adds one mesh, and every triangle of it has the color it has when the
\* same element is imported without its face_colors.
C27_FaceColorsIgnored ==
    [][(/\ bStage = "elements"
        /\ bNext <= Len(bContent.elements.items)
        /\ BothColorSources(bContent.elements.items[bNext]))
       => LET bimElement == bContent.elements.items[bNext]
              without == ImportElement(bModel, bMaterials, bMeshIdToMesh,
                                       [bimElement EXCEPT !.face_colors = Absent])
              mesh == bModel'.meshes[Len(bModel'.meshes)]
          IN  /\ Len(bModel'.meshes) = Len(bModel.meshes) + 1
              /\ mesh /= NullObject
              /\ Len(mesh.triangles) = Len(without.mesh.triangles)
              /\ \A t \in 1..Len(mesh.triangles) :
                    TriangleColor(mesh, bMaterials', t)
                       = TriangleColor(without.mesh, without.materials, t)]_vars

\* An element with the face_colors Red and Blue was imported for a mesh of
\* one triangle with the color Blue: the triangle is Blue, and Red is among
\* the materials.
C27_Witness ==
    \E i \in Imported :
        /\ BothColorSources(ElementOf(i))
        /\ ElementOf(i).face_colors.items = Red \o Blue
        /\ BimMeshOf(i).colors.items = Blue
        /\ MeshOf(i) /= NullObject
        /\ Len(MeshOf(i).triangles) = 1
        /\ HasMaterial(bMaterials, MeshOf(i).triangles[1].mat)
        /\ bMaterials[MeshOf(i).triangles[1].mat + 1] = Blue
        /\ \E m \in 1..Len(bMaterials) : bMaterials[m] = Red

\* C28: every triangle of every mesh of the model names three vertices of
\* its mesh.
C28_VertexIndicesInRange ==
    \A i \in Imported :
        MeshOf(i) /= NullObject =>
            \A t \in 1..Len(MeshOf(i).triangles) :
                /\ MeshOf(i).triangles[t].v0 \in 0..(Len(MeshOf(i).vertices) - 1)
                /\ MeshOf(i).triangles[t].v1 \in 0..(Len(MeshOf(i).vertices) - 1)
                /\ MeshOf(i).triangles[t].v2 \in 0..(Len(MeshOf(i).vertices) - 1)

\* The triangle corners of the meshes that were decoded in vertex color
\* mode: <<i, t, k>> is corner k of triangle t of mesh i.
VertexColorCorners ==
    {corner \in Imported \X (1..MaxTriangles) \X (0..2) :
        /\ MeshOf(corner[1]) /= NullObject
        /\ BimMeshOf(corner[1]).colors.present
        /\ IsVertexColorMode(BimMeshOf(corner[1]))
        /\ corner[2] <= Len(MeshOf(corner[1]).triangles)}

\* The RGBA entry of the colors array that belongs to a corner, and the
\* vertex color index the corner carries.
EntryOfCorner(corner) ==
    ColorEntry(BimMeshOf(corner[1]).colors.items, 3 * (corner[2] - 1) + corner[3])

IndexOfCorner(corner) ==
    LET triangle == MeshOf(corner[1]).triangles[corner[2]]
    IN  CASE corner[3] = 0 -> triangle.c0
          [] corner[3] = 1 -> triangle.c1
          [] OTHER -> triangle.c2

\* C29: in one import every RGBA value has one material index and every
\* material index one RGBA value, for the triangles of all meshes; and in
\* the same way equal RGBA entries of corners have equal vertex color
\* indices and different entries different indices.
C29_OneIndexPerColor ==
    /\ \A m, n \in 1..Len(bMaterials) : bMaterials[m] = bMaterials[n] => m = n
    /\ \A i \in Imported :
          (MeshOf(i) /= NullObject /\ MaterialMode(MeshOf(i))) =>
              \A t \in 1..Len(MeshOf(i).triangles) :
                  HasMaterial(bMaterials, MeshOf(i).triangles[t].mat)
    /\ \A corner, other \in VertexColorCorners :
          (EntryOfCorner(corner) = EntryOfCorner(other))
             <=> (IndexOfCorner(corner) = IndexOfCorner(other))

\* An element with a color of its own whose mesh has a colors array that
\* is decoded in material mode.
ColorOfElementOverColors(i) ==
    /\ ElementOf(i).color.present
    /\ BimMeshOf(i).colors.present
    /\ TriangleCount(BimMeshOf(i)) >= 1
    /\ ~IsVertexColorMode(BimMeshOf(i))

\* C34: when an element has a color of its own and its mesh is decoded in
\* material mode, every triangle of the mesh carries the material of the
\* color of the element, whatever index that material has.
C34_ElementColorWins ==
    \A i \in Imported :
        ColorOfElementOverColors(i) =>
            \A t \in 1..Len(MeshOf(i).triangles) :
                /\ MeshOf(i).triangles[t].mat \in 0..(Len(bMaterials) - 1)
                /\ bMaterials[MeshOf(i).triangles[t].mat + 1] = ElementOf(i).color.items

(***************************************************************************)
(* Properties of ImporterFcstd.OnFileConverted.                            *)
(***************************************************************************)
\* i written with three digits.
ThreeDigits(i) ==
    IF i < 10 THEN "00" \o ToString(i)
    ELSE IF i < 100 THEN "0" \o ToString(i)
    ELSE ToString(i)

\* The meshes and the group node the claim lists for a response with
\* meshCount raw meshes for an object, on a model of meshesBefore meshes.
ListedMeshes(object, meshCount) ==
    [i \in 1..meshCount |->
        [name |-> IF object.shapeName /= Null
                  THEN object.shapeName \o " " \o ThreeDigits(i)
                  ELSE Null]]

ListedNode(object, meshCount, meshesBefore) ==
    [type |-> "GroupNode", name |-> object.shapeName,
     meshIndices |-> [i \in 1..meshCount |-> meshesBefore + i - 1]]

\* C30: the step that handles a successful response with M >= 1 raw meshes
\* for an object appends M meshes to the model and one group node with
\* their M indices to the root; with a label the node carries the label and
\* mesh i the label, a space and i in three digits, without a label neither
\* has a name.
C30_MeshesAndGroupNode ==
    [][\A w \in Workers :
          (Answered(w) /\ workers'[w].outcomes[Len(workers'[w].outcomes)] = "converted")
          => LET k == Len(workers'[w].outcomes)
                 object == workers[w].objects[k]
                 meshCount == workers'[w].meshCounts[k]
             IN  /\ meshCount >= 1
                 /\ model'.meshes = model.meshes \o ListedMeshes(object, meshCount)
                 /\ model'.root =
                       Append(model.root,
                              ListedNode(object, meshCount, Len(model.meshes)))]_vars

\* Of three objects the first, with a label, gave two meshes and the
\* second, without a label, gave one.
C30_Witness ==
    \E w \in Workers :
        /\ Len(workers[w].meshCounts) >= 2
        /\ workers[w].meshCounts[1] = 2
        /\ workers[w].meshCounts[2] = 1
        /\ workers[w].objects[1].shapeName /= Null
        /\ workers[w].objects[2].shapeName = Null
        /\ Len(NodesOf(w)) = 2
        /\ NodesOf(w)[1].meshIndices = <<workers[w].meshesBefore, workers[w].meshesBefore + 1>>
        /\ model.meshes[workers[w].meshesBefore + 2].name
              = workers[w].objects[1].shapeName \o " 002"
        /\ model.meshes[workers[w].meshesBefore + 3].name = Null

\* The positions of the responses of worker w that gave a group node, in the
\* order in which they were received.
ConvertedPositions(w) ==
    SelectSeq([k \in 1..Len(workers[w].outcomes) |-> k],
              LAMBDA k : workers[w].outcomes[k] = "converted")

\* C31: the k-th response a worker receives is handled with the k-th object
\* of its list: the group nodes made since the worker was made are those of
\* the converted responses, in the order of the objects, each with the label
\* of the object at the position of its response, and the step that handles
\* the k-th response adds at most one node, with the label of object k.
C31_ResponseToObject ==
    /\ [](\A w \in Workers :
            LET positions == ConvertedPositions(w)
            IN  /\ Len(NodesOf(w)) = Len(positions)
                /\ \A i \in 1..Len(positions) :
                      /\ NodesOf(w)[i].name = workers[w].objects[positions[i]].shapeName
                      /\ i > 1 => positions[i - 1] < positions[i])
    /\ [][\A w \in Workers :
            Answered(w)
            => LET k == Len(workers'[w].outcomes)
               IN  /\ k = workers[w].convertedObjectCount + 1
                   /\ k <= ObjectCount(w)
                   /\ IF workers'[w].outcomes[k] = "converted"
                      THEN /\ Len(model'.root) = Len(model.root) + 1
                           /\ model'.root[Len(model'.root)].name
                                 = workers[w].objects[k].shapeName
                      ELSE model'.root = model.root]_vars

\* Of three objects with different labels the first request failed and the
\* second and third gave the nodes of the second and third object.
C31_Witness ==
    \E w \in Workers :
        /\ workers[w].outcomes = <<"failed", "converted", "converted">>
        /\ Len(NodesOf(w)) = 2
        /\ NodesOf(w)[1].name = workers[w].objects[2].shapeName
        /\ NodesOf(w)[2].name = workers[w].objects[3].shapeName
        /\ workers[w].objects[1].shapeName /= workers[w].objects[2].shapeName
        /\ workers[w].objects[2].shapeName /= workers[w].objects[3].shapeName
        /\ workers[w].objects[1].shapeName /= workers[w].objects[3].shapeName

(***************************************************************************)
(* Properties of the calls of ImporterFcstd in any order, under SpecCalls. *)
(***************************************************************************)
\* C32: the importer holds the reference to every worker it made that was
\* not terminated, and when ClearContent has returned every worker it made
\* is terminated.
C32_NoWorkerLost ==
    /\ \A w \in Workers : ~workers[w].terminated => worker = w
    /\ op = "ClearContent" => \A w \in Workers : workers[w].terminated

AttachedDivs == {c \in DOMAIN eChildren : eChildren[c].tag = "div"}

\* C35: the parent element never has more than one progress div of the
\* viewer, and when a load has ended in onModelFinished it has none and the
\* canvas is displayed.
C35_OneProgressDiv ==
    /\ Cardinality(AttachedDivs) <= 1
    /\ eOp = "onModelFinished" => (AttachedDivs = {} /\ eDisplay = "inherit")

\* C36: the model is null while a load runs and after onLoadError, it is
\* set only by onModelFinished, to the model of the import result;
\* parameters.onModelLoaded is invoked by onModelFinished only, once, with
\* the model set; a call with null or an empty list changes nothing of the
\* viewer.
C36_ModelOfLastLoad ==
    /\ [](eLoad /= NullObject => eModel = NullObject)
    /\ [](\A k \in 1..Len(eLoaded) : eLoaded[k] /= NullObject)
    /\ [][/\ eOp' = "LoadModelFromInputFiles" => eModel' = NullObject
          /\ eOp' = "onLoadError" => (eModel' = NullObject /\ eModel = NullObject)
          /\ eOp' = "onModelFinished" =>
                /\ \E importResult \in ImportResults : eModel' = importResult.model
                /\ eLoaded' = IF eParameters.onModelLoaded
                              THEN Append(eLoaded, eModel') ELSE eLoaded
          /\ eOp' /= "onModelFinished" =>
                /\ eLoaded' = eLoaded
                /\ eModel' \in {eModel, NullObject}
          /\ eOp' = "LoadModelFromInputFiles (nothing)" =>
                UNCHANGED <<eParameters, eModel, eDisplay, eChildren, eMainObject,
                            eLoad, eLoads, eLoaded>>]_vars

\* The first load ended in onLoadError, the second one in onModelFinished,
\* and parameters.onModelLoaded was invoked once, with the model set.
C36_Witness ==
    /\ eLoads = 2
    /\ eLoad = NullObject
    /\ AttachedDivs /= {}
    /\ eModel /= NullObject
    /\ eLoaded = <<eModel>>

(***************************************************************************)
(* Properties of Viewer.SetMeshesHighlight, under SpecHighlight.           *)
(***************************************************************************)
Saved(mesh) == mesh.userData.threeMaterials

\* C37: the saved materials of a mesh are its original ones or null, and a
\* mesh without saved materials has its original material array; a call
\* saves materials only for a mesh it selects that had none saved, leaves
\* a selected mesh with saved materials as it is, and leaves every mesh it
\* does not select with its original material array and nothing saved.
C37_OriginalMaterialsKept ==
    /\ [](\A m \in 1..Len(hMeshes) :
            /\ Saved(hMeshes[m]).present => Saved(hMeshes[m]).items = hMeshes[m].original
            /\ ~Saved(hMeshes[m]).present => hMeshes[m].material = hMeshes[m].original)
    /\ [][\A m \in 1..Len(hMeshes) :
            /\ hMeshes'[m].original = hMeshes[m].original
            /\ (Saved(hMeshes'[m]) /= Saved(hMeshes[m]) /\ Saved(hMeshes'[m]).present)
                  => /\ ~Saved(hMeshes[m]).present
                     /\ m \in hCall'.isHighlighted
                     /\ Saved(hMeshes'[m]).items = hMeshes[m].material
            /\ (Saved(hMeshes[m]).present /\ m \in hCall'.isHighlighted)
                  => hMeshes'[m] = hMeshes[m]
            /\ m \notin hCall'.isHighlighted
                  => /\ hMeshes'[m].material = hMeshes[m].original
                     /\ ~Saved(hMeshes'[m]).present]_vars

\* The first mesh was highlighted in red and is still red after a call
\* with blue that selects it; the second mesh, highlighted before, was not
\* selected by the last call and has its two original materials.
C37_Witness ==
    /\ Len(hMeshes) = 2
    /\ hCall /= NullObject
    /\ hCall.highlightColor = "blue"
    /\ hCall.isHighlighted = {1}
    /\ hMeshes[1].material = <<[color |-> "red"]>>
    /\ Saved(hMeshes[1]) = Present(hMeshes[1].original)
    /\ Len(hMeshes[2].original) = 2
    /\ hMeshes[2].material = hMeshes[2].original
    /\ ~Saved(hMeshes[2]).present

====
